---- MODULE Spec2Model ----
(***************************************************************************)
(* Dual-provider orchestration engine: DualAPIClient (per-provider rate    *)
(* limit windows, provider calls, callAPI) and DualAPIOrchestrator         *)
(* (createAgent, executeAgent, collaborateAgents).                         *)
(*                                                                         *)
(* An async function is split at its suspension point, the awaited         *)
(* provider request: the part before it is one step, the continuation      *)
(* after the reply another.  Message texts are small integers, prompts     *)
(* built by collaborateAgents are kept structured (the list of name/       *)
(* response pairs they are formatted from).                                *)
(***************************************************************************)
EXTENDS Integers, Sequences, FiniteSets, TLC

\* ---------------------------------------------------------------- constants
MEMORY_CAP == 20
WINDOW_MS == 60000
DEFAULT_LIMIT == 60
WS_DEFAULT_ITERATIONS == 3
SESSION_TIMEOUT_MS == 1800000

\* ------------------------------------------------------------------- bounds
MaxAgents == 2
MaxCalls == 3
MaxTicks == 2
MaxInflight == 2
MaxParticipants == 2
MaxIterations == 2
MaxRuns == 1
MemWarm == 9
MemCalls == 3
MaxSessions == 1
MaxMessages == 3
MaxLen == 4
MaxDirect == 2
MaxConnections == 2

VARIABLES
    now,          \* Date.now()
    keys,         \* provider -> whether its API key is configured
    rateLimits,   \* DualAPIClient.rateLimits
    metrics,      \* the counters of the global metrics object the engine updates
    agents,       \* DualAPIOrchestrator.agents: id -> agent
    inflight,     \* provider requests awaiting their reply, one per suspended executeAgent
    runs,         \* the collaboration objects of collaborateAgents calls
    result,       \* what the last finished top-level executeAgent call gave its caller
    appended,     \* history: per agent, every element ever pushed on its memory
    invocations,  \* history: number of top-level executeAgent calls made
    ticks,        \* history: number of clock advances
    sent,         \* history: per provider, the requests handed to fetch
    succeeded,    \* history: per provider, the adapter calls that returned a reply
    sessions,     \* the sessions Map: session id -> session
    inbound,      \* history: per connection, the messages its handler was run on
    outbound,     \* history: per connection, the events passed to ws.send
    handlers      \* the suspended message handlers of the connections

vars == <<now, keys, rateLimits, metrics, agents, inflight, runs, result,
          appended, invocations, ticks, sent, succeeded,
          sessions, inbound, outbound, handlers>>

\* The state of the engine, and that of the WebSocket side, which the engine
\* never touches.
engine == <<now, keys, rateLimits, metrics, agents, inflight, runs, result,
            appended, invocations, ticks, sent, succeeded>>

chan == <<sessions, inbound, outbound, handlers>>

\* ------------------------------------------------------------------ values
Providers == {"openai", "anthropic"}
Undefined == "undefined"
ConfigProviders == {Undefined, "openai", "anthropic", "other"}
NoError == "none"
UndefinedText == 0
UndefinedUsage == 0
Direct == 0

Min(a, b) == IF a < b THEN a ELSE b
Max(a, b) == IF a > b THEN a ELSE b

\* The last n elements of s: Array.prototype.slice(-n) for n >= 1.
LastN(s, n) == SubSeq(s, Max(1, Len(s) - n + 1), Len(s))

Text(t) == [kind |-> "text", text |-> t, entries |-> <<>>]
NoContent == [kind |-> Undefined, text |-> UndefinedText, entries |-> <<>>]
UserMessage(c) == [role |-> "user", content |-> c]
AssistantMessage(t) == [role |-> "assistant", content |-> Text(t)]
UndefinedMessage == [role |-> Undefined, content |-> NoContent]

\* The content of a system message is the instructions string itself; it is
\* carried in the kind field, so that no two instructions make the same content.
SystemMessage(instructions) ==
    [role |-> "system",
     content |-> [kind |-> instructions, text |-> UndefinedText, entries |-> <<>>]]

\* What the awaited provider request can come back with.
\*   ok            a success status whose body holds the reply message
\*   http_error    a non-success status
\*   network_error fetch rejects
\*   bad_json      a success status whose body does not parse
\*   no_choices    a body without the choices (content) array, or an empty one
\*   no_message    (chat completions only) choices[0] carries no message
ReplyKinds(p) ==
    {"ok", "http_error", "network_error", "bad_json", "no_choices"}
        \cup (IF p = "openai" THEN {"no_message"} ELSE {})

\* ------------------------------------------------------------ DualAPIClient
\* Mutant of checkRateLimitWindow: the window already resets at its reset time.
checkRateLimitWindowEarly(p) ==
    IF now >= rateLimits[p].resetTime
    THEN [rateLimits[p] EXCEPT !.requests = 0, !.resetTime = now + WINDOW_MS]
    ELSE rateLimits[p]

\* Mutant of checkRateLimitWindow: the reset opens a new window and keeps the
\* count of the old one.
checkRateLimitWindowKeepCount(p) ==
    IF now > rateLimits[p].resetTime
    THEN [rateLimits[p] EXCEPT !.resetTime = now + WINDOW_MS]
    ELSE rateLimits[p]

\* Mutant of checkRateLimitWindow: the new reset time is the length of a
\* window, not the time at which the new window ends.
checkRateLimitWindowRelative(p) ==
    IF now > rateLimits[p].resetTime
    THEN [rateLimits[p] EXCEPT !.requests = 0, !.resetTime = WINDOW_MS]
    ELSE rateLimits[p]

\* The window of provider p after the lazy reset of checkRateLimit.
checkRateLimitWindow(p) ==
    IF now > rateLimits[p].resetTime
    THEN [rateLimits[p] EXCEPT !.requests = 0, !.resetTime = now + WINDOW_MS]
    ELSE rateLimits[p]

\* Mutant of checkRateLimit: a full window still admits one call.
checkRateLimitInclusive(p) ==
    checkRateLimitWindow(p).requests <= checkRateLimitWindow(p).limit

checkRateLimit(p) == checkRateLimitWindow(p).requests < checkRateLimitWindow(p).limit

\* The error the synchronous part of callOpenAI / callAnthropic throws, if any.
callProviderError(p) ==
    IF ~keys[p] THEN "API key not configured"
    ELSE IF ~checkRateLimit(p) THEN "rate limit exceeded"
    ELSE NoError

\* The error callAPI raises before any request is made, if any.
callAPIError(p) ==
    IF p \in Providers THEN callProviderError(p) ELSE "Unsupported provider"

RequestCounter(p) == IF p = "openai" THEN "openaiRequests" ELSE "anthropicRequests"

\* Mutant of callAPIRateLimits: the slot is taken before the check.
callAPIRateLimitsReserveFirst(p) ==
    IF p \notin Providers \/ ~keys[p] THEN rateLimits
    ELSE [rateLimits EXCEPT ![p] =
             [checkRateLimitWindow(p) EXCEPT
                 !.requests = checkRateLimitWindow(p).requests + 1]]

\* Mutant of callAPIRateLimits: the window is checked before the key.
callAPIRateLimitsCheckFirst(p) ==
    IF p \notin Providers THEN rateLimits
    ELSE IF ~checkRateLimit(p) \/ ~keys[p]
         THEN [rateLimits EXCEPT ![p] = checkRateLimitWindow(p)]
         ELSE [rateLimits EXCEPT ![p] =
                  [checkRateLimitWindow(p) EXCEPT
                      !.requests = checkRateLimitWindow(p).requests + 1]]

\* Mutant of callAPIRateLimits: the increment does not follow the check in the
\* same synchronous stretch, it is left for after the request.
callAPIRateLimitsDeferred(p) ==
    IF p \notin Providers \/ ~keys[p] THEN rateLimits
    ELSE [rateLimits EXCEPT ![p] = checkRateLimitWindow(p)]

\* Mutant of callAPIRateLimits: an admitted call is counted in both windows.
callAPIRateLimitsShared(p) ==
    IF p \notin Providers \/ ~keys[p] THEN rateLimits
    ELSE IF ~checkRateLimit(p)
         THEN [rateLimits EXCEPT ![p] = checkRateLimitWindow(p)]
         ELSE [q \in Providers |->
                  IF q = p
                  THEN [checkRateLimitWindow(p) EXCEPT
                           !.requests = checkRateLimitWindow(p).requests + 1]
                  ELSE [rateLimits[q] EXCEPT !.requests = rateLimits[q].requests + 1]]

\* rateLimits after the synchronous part of callAPI for provider p.
callAPIRateLimits(p) ==
    IF p \notin Providers \/ ~keys[p] THEN rateLimits
    ELSE IF ~checkRateLimit(p)
         THEN [rateLimits EXCEPT ![p] = checkRateLimitWindow(p)]
         ELSE [rateLimits EXCEPT ![p] =
                  [checkRateLimitWindow(p) EXCEPT
                      !.requests = checkRateLimitWindow(p).requests + 1]]

\* Mutant of callAPIMetrics: an admitted call is not counted.
callAPIMetricsUncounted(p) ==
    IF callAPIError(p) # NoError
    THEN [metrics EXCEPT !.errors = metrics.errors + 1]
    ELSE metrics

\* metrics after the synchronous part of callAPI for provider p.
callAPIMetrics(p) ==
    IF callAPIError(p) # NoError
    THEN [metrics EXCEPT !.errors = metrics.errors + 1]
    ELSE [metrics EXCEPT ![RequestCounter(p)] = metrics[RequestCounter(p)] + 1]

\* The error the continuation of callAPI raises for a reply of kind k, if any.
replyError(p, k) ==
    CASE k = "http_error" -> "API error"
      [] k = "network_error" -> "fetch failed"
      [] k = "bad_json" -> "invalid json"
      [] k = "no_choices" /\ p = "anthropic" -> "TypeError"
      [] OTHER -> NoError

\* The usage block that comes with the canned reply of text t.
Usage(t) == 100 + t

\* The parsed body of a success reply of text t, as each provider sends it.
OpenAIBody(t) == [choices |-> <<[message |-> AssistantMessage(t)]>>, usage |-> Usage(t)]

AnthropicBody(t) ==
    [content |-> <<[type |-> "text", text |-> Text(t)]>>, usage |-> Usage(t)]

\* callOpenAI returns the parsed body as it is.
callOpenAIResult(body) == body

\* Mutant of callAnthropicResult: the content block is handed on unopened.
callAnthropicResultBlock(body) ==
    [choices |-> <<[message |-> [role |-> "assistant",
                                 content |-> [kind |-> "block",
                                              text |-> body.content[1].text.text,
                                              entries |-> <<>>]]]>>,
     usage |-> body.usage]

\* "Convert back to OpenAI format for consistency"
callAnthropicResult(body) ==
    [choices |-> <<[message |-> [role |-> "assistant",
                                 content |-> body.content[1].text]]>>,
     usage |-> body.usage]

\* What callAPI returns for the canned reply of text t from provider p.
callAPIResult(p, t) ==
    IF p = "anthropic" THEN callAnthropicResult(AnthropicBody(t))
    ELSE callOpenAIResult(OpenAIBody(t))

\* The caller's options, spread last into the request body ("...options"): a
\* function from the keys the caller gave to their values. The two defaults the
\* body also carries (temperature, max_tokens) are left out of the model.
NoOptions == [key \in {} |-> <<>>]

\* The separator of Array.prototype.join('\n').
Newline == [kind |-> "\n", text |-> UndefinedText, entries |-> <<>>]

\* contents.join('\n'), kept as the sequence of the contents with the separator
\* between every two neighbours.
RECURSIVE join(_)
join(contents) ==
    IF Len(contents) <= 1 THEN contents
    ELSE <<Head(contents), Newline>> \o join(Tail(contents))

\* messages.map(m => m.content)
contentsOf(messages) == [i \in 1..Len(messages) |-> messages[i].content]

systemMessage(m) == m.role = "system"
conversationMessage(m) == m.role # "system"

\* The request body of callOpenAI.
callOpenAIBody(messages, model, options) ==
    options @@ [model |-> model, messages |-> messages]

\* Mutant of callAnthropicBody: only the first system message is sent.
callAnthropicBodyFirst(messages, model, options) ==
    options @@ [model |-> model,
                system |-> SubSeq(contentsOf(SelectSeq(messages, systemMessage)), 1,
                                  Min(1, Len(SelectSeq(messages, systemMessage)))),
                messages |-> SelectSeq(messages, conversationMessage)]

\* "Convert OpenAI format to Anthropic format": the request body of callAnthropic.
callAnthropicBody(messages, model, options) ==
    options @@ [model |-> model,
                system |-> join(contentsOf(SelectSeq(messages, systemMessage))),
                messages |-> SelectSeq(messages, conversationMessage)]

\* The request body callAPI has its provider's method send.
callAPIBody(p, messages, model, options) ==
    IF p = "anthropic" THEN callAnthropicBody(messages, model, options)
    ELSE callOpenAIBody(messages, model, options)

\* sent after a request to provider p is handed to fetch.
fetchSent(p) == [sent EXCEPT ![p] = sent[p] + 1]

\* succeeded after the reply of kind k to a request to provider p.
resumeSucceeded(p, k) ==
    IF replyError(p, k) = NoError THEN [succeeded EXCEPT ![p] = succeeded[p] + 1]
    ELSE succeeded

\* ------------------------------------------------------ DualAPIOrchestrator
DefaultModel(configProvider) ==
    IF configProvider = "anthropic" THEN "claude-3-5-sonnet-20241022" ELSE "gpt-4"

DefaultInstructions == "You are a helpful AI assistant."

\* The configurations createAgent is called with: a named agent comes with
\* instructions of its own, an unnamed one with none.
Config(name, provider) ==
    [name |-> name, provider |-> provider,
     instructions |-> IF name = Undefined THEN Undefined ELSE "You are a reviewer."]

\* Mutant of newAgent: a provider that is not supported is replaced by the default.
newAgentSupported(config) ==
    [name |-> IF config.name = Undefined THEN "Agent" ELSE config.name,
     provider |-> IF config.provider \in Providers THEN config.provider ELSE "openai",
     model |-> DefaultModel(config.provider),
     instructions |-> IF config.instructions = Undefined THEN DefaultInstructions
                      ELSE config.instructions,
     memory |-> <<>>]

newAgent(config) ==
    [name |-> IF config.name = Undefined THEN "Agent" ELSE config.name,
     provider |-> IF config.provider = Undefined THEN "openai" ELSE config.provider,
     model |-> DefaultModel(config.provider),
     instructions |-> IF config.instructions = Undefined THEN DefaultInstructions
                      ELSE config.instructions,
     memory |-> <<>>]

\* Mutant of createAgent: the id is not fresh, the newest agent is overwritten.
createAgentReuse(config) ==
    /\ agents' = [id \in DOMAIN agents \cup {1} |->
                    IF id = Max(1, Cardinality(DOMAIN agents)) THEN newAgent(config)
                    ELSE agents[id]]
    /\ appended' = [id \in DOMAIN agents \cup {1} |->
                    IF id = Max(1, Cardinality(DOMAIN agents)) THEN <<>>
                    ELSE appended[id]]
    /\ UNCHANGED <<now, keys, rateLimits, metrics, inflight, runs, result,
                   invocations, ticks, sent, succeeded>>

\* uuidv4() is modelled as the next unused number.
createAgent(config) ==
    /\ agents' = [id \in DOMAIN agents \cup {Cardinality(DOMAIN agents) + 1} |->
                    IF id \in DOMAIN agents THEN agents[id] ELSE newAgent(config)]
    /\ appended' = [id \in DOMAIN agents \cup {Cardinality(DOMAIN agents) + 1} |->
                    IF id \in DOMAIN agents THEN appended[id] ELSE <<>>]
    /\ UNCHANGED <<now, keys, rateLimits, metrics, inflight, runs, result,
                   invocations, ticks, sent, succeeded>>

\* The error executeAgent throws before it suspends, if any.
executeAgentError(agentId) ==
    IF agentId \notin DOMAIN agents THEN "Agent not found"
    ELSE callAPIError(agents[agentId].provider)

\* rateLimits and metrics once executeAgent has suspended or thrown.
executeAgentRateLimits(agentId) ==
    IF agentId \notin DOMAIN agents THEN rateLimits
    ELSE callAPIRateLimits(agents[agentId].provider)

\* Mutant of executeAgentMetrics: an unknown agent id is counted as an error.
executeAgentMetricsCounted(agentId) ==
    IF agentId \notin DOMAIN agents THEN [metrics EXCEPT !.errors = metrics.errors + 1]
    ELSE callAPIMetrics(agents[agentId].provider)

executeAgentMetrics(agentId) ==
    IF agentId \notin DOMAIN agents THEN metrics
    ELSE callAPIMetrics(agents[agentId].provider)

\* Mutants of trimMemory: the cap is never applied; the newest messages are dropped.
trimMemoryNever(memory) == memory

trimMemoryNewest(memory) ==
    IF Len(memory) > MEMORY_CAP THEN SubSeq(memory, 1, MEMORY_CAP) ELSE memory

\* "Limit memory to prevent context overflow"
trimMemory(memory) ==
    IF Len(memory) > MEMORY_CAP THEN LastN(memory, MEMORY_CAP) ELSE memory

\* The error executeAgent throws after the reply of kind k has come back, if any.
resumeError(p, k) ==
    IF replyError(p, k) # NoError THEN replyError(p, k)
    ELSE IF k \in {"no_choices", "no_message"} THEN "TypeError"
    ELSE NoError

\* Whether the continuation of executeAgent reaches agent.memory.push.
reachesPush(p, k) == replyError(p, k) = NoError /\ k # "no_choices"

\* The reply message read from response.choices[0].message.
assistantMessage(p, k, t) ==
    IF k = "ok" THEN callAPIResult(p, t).choices[1].message ELSE UndefinedMessage

pushed(p, message, k, t) == <<UserMessage(message), assistantMessage(p, k, t)>>

\* What executeAgent gives its caller once the reply of kind k has come back.
resumeResult(p, k, t) ==
    [error |-> resumeError(p, k),
     response |-> IF k = "ok" THEN assistantMessage(p, k, t).content.text
                  ELSE UndefinedText,
     usage |-> IF k = "ok" THEN callAPIResult(p, t).usage ELSE UndefinedUsage]

\* agents and appended after the continuation of executeAgent on call c.
resumeAgents(c, k, t) ==
    IF reachesPush(c.provider, k)
    THEN [agents EXCEPT ![c.agentId].memory =
             trimMemory(agents[c.agentId].memory \o pushed(c.provider, c.message, k, t))]
    ELSE agents

resumeAppended(c, k, t) ==
    IF reachesPush(c.provider, k)
    THEN [appended EXCEPT ![c.agentId] = appended[c.agentId] \o pushed(c.provider, c.message, k, t)]
    ELSE appended

\* Mutant of resumeMetrics: callAPI's catch rethrows without counting.
resumeMetricsUncounted(c, k) == metrics

\* metrics after the continuation: callAPI's catch counts what callOpenAI /
\* callAnthropic threw.
resumeMetrics(c, k) ==
    IF replyError(c.provider, k) # NoError
    THEN [metrics EXCEPT !.errors = metrics.errors + 1]
    ELSE metrics

\* --------------------------------------------------------- requests in flight
Free == [st |-> "free", agentId |-> 0, message |-> NoContent, provider |-> Undefined,
         run |-> Direct, model |-> Undefined, messages |-> <<>>,
         options |-> NoOptions, body |-> NoOptions, at |-> 0]

FreeSlots == {s \in DOMAIN inflight : inflight[s].st = "free"}
FirstFree == CHOOSE s \in FreeSlots : \A u \in FreeSlots : s <= u

\* Mutant of executeAgentMessages: the caller's message goes before the memory.
executeAgentMessagesAsked(agentId, message) ==
    <<SystemMessage(agents[agentId].instructions), UserMessage(message)>>
        \o agents[agentId].memory

\* "Build conversation context"
executeAgentMessages(agentId, message) ==
    <<SystemMessage(agents[agentId].instructions)>>
        \o agents[agentId].memory \o <<UserMessage(message)>>

\* Mutant of Fetch: the call is sent without the agent's memory.
FetchWithoutMemory(agentId, message, run) ==
    [st |-> "fetch", agentId |-> agentId, message |-> message,
     provider |-> agents[agentId].provider, run |-> run,
     model |-> agents[agentId].model,
     messages |-> <<SystemMessage(agents[agentId].instructions), UserMessage(message)>>,
     options |-> NoOptions,
     body |-> callAPIBody(agents[agentId].provider,
                          <<SystemMessage(agents[agentId].instructions),
                            UserMessage(message)>>,
                          agents[agentId].model, NoOptions),
     at |-> now]

\* The call as it is suspended at the awaited request: the arguments of callAPI
\* (context.options is taken to be absent), the body handed to fetch and the
\* time at which the limiter admitted the call.
Fetch(agentId, message, run) ==
    [st |-> "fetch", agentId |-> agentId, message |-> message,
     provider |-> agents[agentId].provider, run |-> run,
     model |-> agents[agentId].model,
     messages |-> executeAgentMessages(agentId, message),
     options |-> NoOptions,
     body |-> callAPIBody(agents[agentId].provider,
                          executeAgentMessages(agentId, message),
                          agents[agentId].model, NoOptions),
     at |-> now]

\* ------------------------------------------- executeAgent, called on its own
\* executeAgent(agentId, message) throws before any request is made.
ExecuteAgentThrows(agentId, message) ==
    /\ executeAgentError(agentId) # NoError
    /\ rateLimits' = executeAgentRateLimits(agentId)
    /\ metrics' = executeAgentMetrics(agentId)
    /\ result' = [error |-> executeAgentError(agentId),
                  response |-> UndefinedText, usage |-> UndefinedUsage]
    /\ invocations' = invocations + 1
    /\ UNCHANGED <<now, keys, agents, inflight, runs, appended, ticks, sent, succeeded>>

\* executeAgent(agentId, message) runs up to the awaited provider request.
ExecuteAgentRequest(agentId, message) ==
    /\ executeAgentError(agentId) = NoError
    /\ FreeSlots # {}
    /\ rateLimits' = executeAgentRateLimits(agentId)
    /\ metrics' = executeAgentMetrics(agentId)
    /\ inflight' = [inflight EXCEPT ![FirstFree] = Fetch(agentId, message, Direct)]
    /\ invocations' = invocations + 1
    /\ sent' = fetchSent(agents[agentId].provider)
    /\ UNCHANGED <<now, keys, agents, runs, result, appended, ticks, succeeded>>

\* Mutant of ExecuteAgentResume: a call that failed at the provider gives its
\* slot back.
ExecuteAgentResumeReleasing(s, k, t) ==
    /\ inflight[s].st = "fetch"
    /\ inflight[s].run = Direct
    /\ k \in ReplyKinds(inflight[s].provider)
    /\ agents' = resumeAgents(inflight[s], k, t)
    /\ appended' = resumeAppended(inflight[s], k, t)
    /\ metrics' = resumeMetrics(inflight[s], k)
    /\ result' = resumeResult(inflight[s].provider, k, t)
    /\ succeeded' = resumeSucceeded(inflight[s].provider, k)
    /\ inflight' = [inflight EXCEPT ![s] = Free]
    /\ rateLimits' =
          IF replyError(inflight[s].provider, k) # NoError
          THEN [rateLimits EXCEPT ![inflight[s].provider].requests =
                   Max(0, rateLimits[inflight[s].provider].requests - 1)]
          ELSE rateLimits
    /\ UNCHANGED <<now, keys, runs, invocations, ticks, sent>>

\* The reply of kind k (text t) comes back and executeAgent runs to its end.
ExecuteAgentResume(s, k, t) ==
    /\ inflight[s].st = "fetch"
    /\ inflight[s].run = Direct
    /\ k \in ReplyKinds(inflight[s].provider)
    /\ agents' = resumeAgents(inflight[s], k, t)
    /\ appended' = resumeAppended(inflight[s], k, t)
    /\ metrics' = resumeMetrics(inflight[s], k)
    /\ result' = resumeResult(inflight[s].provider, k, t)
    /\ succeeded' = resumeSucceeded(inflight[s].provider, k)
    /\ inflight' = [inflight EXCEPT ![s] = Free]
    /\ UNCHANGED <<now, keys, rateLimits, runs, invocations, ticks, sent>>

\* -------------------------------------------------------- collaborateAgents
NotSet == 0 - 1

Goal(g) == [kind |-> "goal", text |-> g, entries |-> <<>>]

\* One line of the "Previous responses" digest: `${r.agent.name}: ${r.response}`.
\* The record of a failed turn has neither, and formats as undefined.
DigestEntry(rec) == [name |-> rec.name, response |-> rec.response]

\* Mutant of Slice: only the record just pushed is digested.
SliceLast(conversation, n) == LastN(conversation, 1)

\* conversation.slice(-n): slice(-0) is the whole array.
Slice(conversation, n) == IF n = 0 THEN conversation ELSE LastN(conversation, n)

RecordHasResponse(rec) == rec.error = NoError

\* Mutant of Digest: the records of failed turns are left out of the slice.
DigestOfResponses(conversation, n) ==
    [kind |-> "digest", text |-> UndefinedText,
     entries |-> [x \in 1..Len(SelectSeq(Slice(conversation, n), RecordHasResponse)) |->
                     DigestEntry(SelectSeq(Slice(conversation, n), RecordHasResponse)[x])]]

Digest(conversation, n) ==
    [kind |-> "digest", text |-> UndefinedText,
     entries |-> [x \in 1..Len(Slice(conversation, n)) |->
                     DigestEntry(Slice(conversation, n)[x])]]

SuccessRecord(iteration, agentId, t) ==
    [iteration |-> iteration, agentId |-> agentId, name |-> agents[agentId].name,
     response |-> t, error |-> NoError]

\* Mutant of ErrorRecord: the record of a failed turn does not say what failed.
ErrorRecordUnnamed(iteration, agentId, error) ==
    [iteration |-> iteration, agentId |-> agentId, name |-> Undefined,
     response |-> UndefinedText, error |-> "error"]

ErrorRecord(iteration, agentId, error) ==
    [iteration |-> iteration, agentId |-> agentId, name |-> Undefined,
     response |-> UndefinedText, error |-> error]

\* The loop of collaborateAgents has a turn left at (i, j): i counts iterations from
\* 0, j is the position in agentIds.
HasTurn(run) == run.i < run.iterations /\ run.j <= Len(run.agentIds)

\* The agent the loop is at.
CurrentAgent(run) == run.agentIds[run.j]

\* Moves the loop to its next turn; past the last one the run is completed.
Advance(run) ==
    LET j2 == IF run.j < Len(run.agentIds) THEN run.j + 1 ELSE 1
        i2 == IF run.j < Len(run.agentIds) THEN run.i ELSE run.i + 1
    IN IF i2 < run.iterations
       THEN [run EXCEPT !.i = i2, !.j = j2, !.pc = "loop"]
       ELSE [run EXCEPT !.i = i2, !.j = j2, !.pc = "done", !.completed = now]

\* Mutant of CatchTurn: the error ends the run.
CatchTurnAbort(run, error) ==
    [run EXCEPT !.conversation =
                    Append(run.conversation,
                           ErrorRecord(run.i + 1, CurrentAgent(run), error)),
                !.pc = "done", !.completed = now]

\* Mutant of CatchTurn: the prompt is re-derived after a failed turn as well.
CatchTurnDigest(run, error) ==
    LET conv == Append(run.conversation, ErrorRecord(run.i + 1, CurrentAgent(run), error))
    IN Advance([run EXCEPT !.conversation = conv,
                           !.currentMessage = Digest(conv, Len(run.agentIds))])

\* Mutant of CatchTurn: a failed turn puts the goal prompt back.
CatchTurnReset(run, error) ==
    Advance([run EXCEPT !.conversation =
                Append(run.conversation, ErrorRecord(run.i + 1, CurrentAgent(run), error)),
                        !.currentMessage = Goal(run.goal)])

\* The run after the turn at (i, j) has ended in its catch block.
CatchTurn(run, error) ==
    Advance([run EXCEPT !.conversation =
                Append(run.conversation, ErrorRecord(run.i + 1, CurrentAgent(run), error))])

\* Mutant of PushTurn: the record of the turn replaces the record before it.
PushTurnReplace(run, t) ==
    LET conv == IF run.conversation = <<>>
                THEN <<SuccessRecord(run.i + 1, CurrentAgent(run), t)>>
                ELSE [run.conversation EXCEPT ![Len(run.conversation)] =
                         SuccessRecord(run.i + 1, CurrentAgent(run), t)]
    IN Advance([run EXCEPT !.conversation = conv,
                           !.currentMessage = Digest(conv, Len(run.agentIds))])

\* The run after the turn at (i, j) has returned a result with reply text t.
PushTurn(run, t) ==
    LET conv == Append(run.conversation, SuccessRecord(run.i + 1, CurrentAgent(run), t))
    IN Advance([run EXCEPT !.conversation = conv,
                           !.currentMessage = Digest(conv, Len(run.agentIds))])

NewRun(agentIds, goal, iterations) ==
    LET run == [agentIds |-> agentIds, goal |-> goal, iterations |-> iterations,
                i |-> 0, j |-> 1, currentMessage |-> Goal(goal), conversation |-> <<>>,
                prompts |-> <<>>, pc |-> "loop", completed |-> NotSet]
    IN IF HasTurn(run) THEN run ELSE [run EXCEPT !.pc = "done", !.completed = now]

\* collaborateAgents(agentIds, goal, iterations) is called: up to the first turn.
collaborateAgents(agentIds, goal, iterations) ==
    /\ runs' = Append(runs, NewRun(agentIds, goal, iterations))
    /\ UNCHANGED <<now, keys, rateLimits, metrics, agents, inflight, result,
                   appended, invocations, ticks, sent, succeeded>>

\* Mutant of TurnReady: the loop does not await executeAgent.
TurnReadyUnawaited(r) == runs[r].pc \in {"loop", "await"}

\* The loop may enter its next turn: the previous await has returned.
TurnReady(r) == runs[r].pc = "loop"

\* executeAgent of the turn throws before any request is made.
TurnThrows(r) ==
    /\ TurnReady(r)
    /\ executeAgentError(CurrentAgent(runs[r])) # NoError
    /\ rateLimits' = executeAgentRateLimits(CurrentAgent(runs[r]))
    /\ metrics' = executeAgentMetrics(CurrentAgent(runs[r]))
    /\ runs' = [runs EXCEPT ![r] =
                  CatchTurn([runs[r] EXCEPT !.prompts = Append(@, runs[r].currentMessage)],
                            executeAgentError(CurrentAgent(runs[r])))]
    /\ UNCHANGED <<now, keys, agents, inflight, result, appended, invocations, ticks,
                   sent, succeeded>>

\* executeAgent of the turn runs up to the awaited provider request.
TurnRequest(r) ==
    /\ TurnReady(r)
    /\ executeAgentError(CurrentAgent(runs[r])) = NoError
    /\ FreeSlots # {}
    /\ rateLimits' = executeAgentRateLimits(CurrentAgent(runs[r]))
    /\ metrics' = executeAgentMetrics(CurrentAgent(runs[r]))
    /\ inflight' = [inflight EXCEPT ![FirstFree] =
                      Fetch(CurrentAgent(runs[r]), runs[r].currentMessage, r)]
    /\ runs' = [runs EXCEPT ![r].prompts = Append(@, runs[r].currentMessage),
                            ![r].pc = "await"]
    /\ sent' = fetchSent(agents[CurrentAgent(runs[r])].provider)
    /\ UNCHANGED <<now, keys, agents, result, appended, invocations, ticks, succeeded>>

\* The reply of the turn's request comes back: executeAgent ends, the loop records
\* the turn and moves on.
TurnResume(s, k, t) ==
    /\ inflight[s].st = "fetch"
    /\ inflight[s].run # Direct
    /\ k \in ReplyKinds(inflight[s].provider)
    /\ agents' = resumeAgents(inflight[s], k, t)
    /\ appended' = resumeAppended(inflight[s], k, t)
    /\ metrics' = resumeMetrics(inflight[s], k)
    /\ runs' = [runs EXCEPT ![inflight[s].run] =
                  IF resumeError(inflight[s].provider, k) = NoError
                  THEN PushTurn(runs[inflight[s].run], t)
                  ELSE CatchTurn(runs[inflight[s].run],
                                 resumeError(inflight[s].provider, k))]
    /\ succeeded' = resumeSucceeded(inflight[s].provider, k)
    /\ inflight' = [inflight EXCEPT ![s] = Free]
    /\ UNCHANGED <<now, keys, rateLimits, result, invocations, ticks, sent>>

\* ---------------------------------------------------------------- the clock
Tick(d) ==
    /\ now' = now + d
    /\ ticks' = ticks + 1
    /\ UNCHANGED <<keys, rateLimits, metrics, agents, inflight, runs, result,
                   appended, invocations, sent, succeeded>>

\* ------------------------------------------------------------ construction
\* new DualAPIOrchestrator() at time 0 with the given keys and limits.
Construct(openaiKey, anthropicKey, openaiLimit, anthropicLimit) ==
    /\ now = 0
    /\ keys = [p \in Providers |-> IF p = "openai" THEN openaiKey ELSE anthropicKey]
    /\ rateLimits = [p \in Providers |->
                        [requests |-> 0, resetTime |-> WINDOW_MS,
                         limit |-> IF p = "openai" THEN openaiLimit ELSE anthropicLimit]]
    /\ metrics = [openaiRequests |-> 0, anthropicRequests |-> 0, errors |-> 0]
    /\ agents = <<>>
    /\ inflight = [s \in 1..MaxInflight |-> Free]
    /\ runs = <<>>
    /\ result = [error |-> NoError, response |-> UndefinedText, usage |-> UndefinedUsage]
    /\ appended = <<>>
    /\ invocations = 0
    /\ ticks = 0
    /\ sent = [p \in Providers |-> 0]
    /\ succeeded = [p \in Providers |-> 0]
    /\ sessions = <<>>
    /\ inbound = <<>>
    /\ outbound = <<>>
    /\ handlers = {}

Limits == {1, 2}
Replies == {1, 2}
Deltas == {1, WINDOW_MS}
MessageTexts == {1}

\* The agent ids a caller may pass: those of the registry and one that is unknown.
CallerIds == 1..(MaxAgents + 1)

Init ==
    \E ok \in BOOLEAN, ak \in BOOLEAN, l \in Limits : Construct(ok, ak, l, l)

CreateAgent ==
    \E p \in ConfigProviders :
        /\ Cardinality(DOMAIN agents) < MaxAgents
        /\ createAgent(Config(Undefined, p))
        /\ UNCHANGED chan

ExecuteThrows ==
    \E a \in CallerIds, m \in MessageTexts :
        /\ invocations < MaxCalls
        /\ ExecuteAgentThrows(a, Text(m))
        /\ UNCHANGED chan

ExecuteRequest ==
    \E a \in CallerIds, m \in MessageTexts :
        /\ invocations < MaxCalls
        /\ ExecuteAgentRequest(a, Text(m))
        /\ UNCHANGED chan

ExecuteResume ==
    \E s \in DOMAIN inflight, k \in ReplyKinds("openai"), t \in Replies :
        /\ (k # "ok" => t = 1)
        /\ ExecuteAgentResume(s, k, t)
        /\ UNCHANGED chan

ClockTick ==
    \E d \in Deltas :
        /\ ticks < MaxTicks
        /\ Tick(d)
        /\ UNCHANGED chan

\* The engine under top-level executeAgent calls and a running clock.
Next == CreateAgent \/ ExecuteThrows \/ ExecuteRequest \/ ExecuteResume \/ ClockTick

Spec == Init /\ [][Next]_vars

\* ------------------------------------------------- collaboration runs alone
\* One provider has its key, the other may have none.
InitCollab == \E ak \in BOOLEAN, l \in Limits : Construct(TRUE, ak, l, l)

AgentIdLists ==
    UNION {[1..n -> CallerIds] : n \in 0..MaxParticipants}

CollabKinds == {"ok", "http_error", "no_message"}

ConfigNames == {Undefined, "Ann"}

CollabCreateAgent ==
    \E p \in ConfigProviders, nm \in ConfigNames :
        /\ Cardinality(DOMAIN agents) < MaxAgents
        /\ createAgent(Config(nm, p))
        /\ UNCHANGED chan

StartCollaboration ==
    \E ids \in AgentIdLists, k \in 0..MaxIterations :
        /\ Len(runs) < MaxRuns
        /\ collaborateAgents(ids, 1, k)
        /\ UNCHANGED chan

RunThrows == \E r \in DOMAIN runs : TurnThrows(r) /\ UNCHANGED chan

RunRequest == \E r \in DOMAIN runs : TurnRequest(r) /\ UNCHANGED chan

RunResume ==
    \E s \in DOMAIN inflight, k \in CollabKinds, t \in Replies :
        /\ (k # "ok" => t = 1)
        /\ TurnResume(s, k, t)
        /\ UNCHANGED chan

NextCollab ==
    CollabCreateAgent \/ StartCollaboration \/ RunThrows \/ RunRequest \/ RunResume

SpecCollab == InitCollab /\ [][NextCollab]_vars

\* The runtime runs every ready continuation, and every provider request
\* eventually returns or fails.
SpecCollabFair ==
    /\ SpecCollab
    /\ WF_vars(RunThrows)
    /\ WF_vars(RunRequest)
    /\ WF_vars(RunResume)

\* ------------------------------------------- long conversations with one agent
\* No rate limit is configured: both windows take the default limit.
InitMem == Construct(TRUE, TRUE, DEFAULT_LIMIT, DEFAULT_LIMIT)

RECURSIVE TurnsOf(_)
TurnsOf(n) == IF n = 0 THEN 0 ELSE Len(runs[n].prompts) + TurnsOf(n - 1)

\* executeAgent calls made so far, on their own or as turns of a run.
TotalCalls == invocations + TurnsOf(Len(runs))

\* A reply text that no earlier reply to the agent carried.
SerialText(s) == Len(appended[inflight[s].agentId]) + 1

MemKinds == {"ok", "http_error", "no_message"}

\* The conversation is first brought to MemWarm plain exchanges, one after the
\* other; from there on calls fail, overlap and run as collaborations.
Warm == agents # <<>> /\ \A a \in DOMAIN agents : Len(appended[a]) >= 2 * MemWarm

Idle == \A s \in DOMAIN inflight : inflight[s].st = "free"

MemCreateAgent ==
    \E p \in Providers :
        /\ agents = <<>>
        /\ createAgent(Config(Undefined, p))
        /\ UNCHANGED chan

MemExecuteThrows ==
    \E a \in 1..2, m \in MessageTexts :
        /\ Warm
        /\ TotalCalls < MemWarm + MemCalls
        /\ ExecuteAgentThrows(a, Text(m))
        /\ UNCHANGED chan

MemExecuteRequest ==
    \E a \in DOMAIN agents, m \in MessageTexts :
        /\ Warm \/ Idle
        /\ TotalCalls < MemWarm + MemCalls
        /\ ExecuteAgentRequest(a, Text(m))
        /\ UNCHANGED chan

MemExecuteResume ==
    \E s \in DOMAIN inflight, k \in MemKinds :
        /\ Warm \/ k = "ok"
        /\ ExecuteAgentResume(s, k, SerialText(s))
        /\ UNCHANGED chan

MemStartCollaboration ==
    \E a \in DOMAIN agents, k \in 1..MemCalls :
        /\ Warm
        /\ Len(runs) < MaxRuns
        /\ collaborateAgents(<<a>>, 1, k)
        /\ UNCHANGED chan

MemRunRequest ==
    \E r \in DOMAIN runs :
        /\ TotalCalls < MemWarm + MemCalls
        /\ TurnRequest(r)
        /\ UNCHANGED chan

MemRunResume ==
    \E s \in DOMAIN inflight, k \in MemKinds :
        TurnResume(s, k, SerialText(s)) /\ UNCHANGED chan

NextMem ==
    \/ MemCreateAgent
    \/ MemExecuteThrows
    \/ MemExecuteRequest
    \/ MemExecuteResume
    \/ MemStartCollaboration
    \/ MemRunRequest
    \/ MemRunResume

SpecMem == InitMem /\ [][NextMem]_vars

\* ------------------------------------------ callAnthropic, called on its own
\* The suspended call of callAnthropic(messages, model, options).
FetchAnthropic(messages, model, options) ==
    [st |-> "fetch", agentId |-> 0, message |-> NoContent, provider |-> "anthropic",
     run |-> Direct, model |-> model, messages |-> messages, options |-> options,
     body |-> callAnthropicBody(messages, model, options), at |-> now]

\* callAnthropic(messages, model, options) throws before any request is made.
CallAnthropicThrows(messages, model, options) ==
    /\ callProviderError("anthropic") # NoError
    /\ rateLimits' = callAPIRateLimits("anthropic")
    /\ result' = [error |-> callProviderError("anthropic"),
                  response |-> UndefinedText, usage |-> UndefinedUsage]
    /\ invocations' = invocations + 1
    /\ UNCHANGED <<now, keys, metrics, agents, inflight, runs, appended, ticks,
                   sent, succeeded>>

\* callAnthropic(messages, model, options) runs up to the awaited request.
CallAnthropicRequest(messages, model, options) ==
    /\ callProviderError("anthropic") = NoError
    /\ FreeSlots # {}
    /\ rateLimits' = callAPIRateLimits("anthropic")
    /\ metrics' = [metrics EXCEPT !.anthropicRequests = metrics.anthropicRequests + 1]
    /\ inflight' = [inflight EXCEPT ![FirstFree] = FetchAnthropic(messages, model, options)]
    /\ invocations' = invocations + 1
    /\ sent' = fetchSent("anthropic")
    /\ UNCHANGED <<now, keys, agents, runs, result, appended, ticks, succeeded>>

\* The reply of kind k (text t) comes back and callAnthropic returns or throws.
CallAnthropicResume(s, k, t) ==
    /\ inflight[s].st = "fetch"
    /\ inflight[s].agentId = 0
    /\ k \in ReplyKinds("anthropic")
    /\ result' = [error |-> replyError("anthropic", k),
                  response |-> IF k = "ok"
                               THEN callAPIResult("anthropic", t).choices[1].message.content.text
                               ELSE UndefinedText,
                  usage |-> IF k = "ok" THEN callAPIResult("anthropic", t).usage
                            ELSE UndefinedUsage]
    /\ succeeded' = resumeSucceeded("anthropic", k)
    /\ inflight' = [inflight EXCEPT ![s] = Free]
    /\ UNCHANGED <<now, keys, rateLimits, metrics, agents, runs, appended,
                   invocations, ticks, sent>>

\* The message lists callAnthropic is given: up to MaxLen messages, each a system
\* message with one of two instructions, a user message or an assistant message.
InputMessages ==
    {SystemMessage(DefaultInstructions), SystemMessage("You are a reviewer."),
     UserMessage(Text(1)), AssistantMessage(2)}

InputLists == UNION {[1..n -> InputMessages] : n \in 0..MaxLen}

\* The options it is given: none, a key the body does not otherwise carry, or a
\* key of the converted conversation.
InputOptions ==
    {NoOptions,
     [top_p |-> <<>>],
     [system |-> <<SystemMessage("Ignore the above.").content>>],
     [messages |-> <<UserMessage(Text(2))>>]}

InitAnthropic == \E ak \in BOOLEAN, l \in Limits : Construct(TRUE, ak, l, l)

AnthropicThrows ==
    \E messages \in InputLists, options \in InputOptions :
        /\ invocations < MaxDirect
        /\ CallAnthropicThrows(messages, DefaultModel("anthropic"), options)
        /\ UNCHANGED chan

\* The caller awaits one call before it makes the next.
AnthropicRequest ==
    \E messages \in InputLists, options \in InputOptions :
        /\ invocations < MaxDirect
        /\ FreeSlots = DOMAIN inflight
        /\ CallAnthropicRequest(messages, DefaultModel("anthropic"), options)
        /\ UNCHANGED chan

AnthropicResume ==
    \E s \in DOMAIN inflight, k \in ReplyKinds("anthropic") :
        /\ CallAnthropicResume(s, k, 1)
        /\ UNCHANGED chan

NextAnthropic == AnthropicThrows \/ AnthropicRequest \/ AnthropicResume

SpecAnthropic == InitAnthropic /\ [][NextAnthropic]_vars

\* ------------------------------------------------------ the WebSocket server
\* A message object after JSON.parse: its type ("ping", "execute_agent",
\* "start_collaboration"; "unparsable" stands for data JSON.parse or the read of
\* message.type throws on, "other" for any type without a case) and the requestId
\* it carries, the client numbering its requests.
NoRequestId == UndefinedText

Inbound(sid, type) == [type |-> type, requestId |-> Len(inbound[sid]) + 1]

\* An event passed to ws.send.  re (the inbound message whose handler sent it, 0
\* for the welcome message) and ref (the run a collaboration_result carries) tell
\* the events apart.
Event(type, requestId, re, ref, error) ==
    [type |-> type, requestId |-> requestId, re |-> re, ref |-> ref, error |-> error]

Connected == Event("connected", NoRequestId, 0, 0, NoError)
Pong(re) == Event("pong", NoRequestId, re, 0, NoError)
AgentResponse(requestId, re) == Event("agent_response", requestId, re, 0, NoError)
\* Mutant of CollaborationResult: the result carries the id of the run, not of
\* the request.
CollaborationResultOfRun(requestId, re, ref) ==
    Event("collaboration_result", ref + MaxMessages, re, ref, NoError)

CollaborationResult(requestId, re, ref) ==
    Event("collaboration_result", requestId, re, ref, NoError)
UnknownType(re) == Event("error", NoRequestId, re, 0, "Unknown message type")

\* Mutant of handlerCatch: the error is swallowed.
handlerCatchSilent(re, error) == <<>>

\* The events the catch block of the message handler sends.
handlerCatch(re, error) == <<Event("error", NoRequestId, re, 0, error)>>

\* Mutant of afterCatch: the handler drops the session it failed on.
afterCatchDelete(sid, ss) == [x \in DOMAIN ss \ {sid} |-> ss[x]]

\* The sessions Map after the catch block has run for connection sid.
afterCatch(sid, ss) == ss

send(sid, events) == [outbound EXCEPT ![sid] = outbound[sid] \o events]

\* "session.lastActivity = Date.now()"
touch(sid) == [sessions EXCEPT ![sid].lastActivity = now]

delete(sid) == [x \in DOMAIN sessions \ {sid} |-> sessions[x]]

\* The handler of message number re of connection sid, suspended on slot or run ref.
Handler(sid, re, type, ref) ==
    [sid |-> sid, re |-> re, requestId |-> re, type |-> type, ref |-> ref]

\* "message.iterations || 3"
wsIterations(k) == IF k = 0 THEN WS_DEFAULT_ITERATIONS ELSE k

\* No continuation is ready to run: the message, timer and reply events below are
\* taken from the event loop only then.
Settled == \A r \in DOMAIN runs : runs[r].pc # "loop"

\* The message handler starts on a message of the given type: the steps before
\* the switch.
onMessage(sid, type) ==
    /\ Settled
    /\ sid \in DOMAIN sessions
    /\ inbound' = [inbound EXCEPT ![sid] = Append(inbound[sid], Inbound(sid, type))]

\* wss.on('connection')
OnConnection ==
    /\ Settled
    /\ sessions' = [x \in DOMAIN sessions \cup {Len(inbound) + 1} |->
                      IF x \in DOMAIN sessions THEN sessions[x]
                      ELSE [lastActivity |-> now]]
    /\ inbound' = Append(inbound, <<>>)
    /\ outbound' = Append(outbound, <<Connected>>)
    /\ UNCHANGED handlers
    /\ UNCHANGED engine

\* Mutant of OnPing: a ping is counted as a request to the first provider.
OnPingCounted(sid) ==
    /\ onMessage(sid, "ping")
    /\ sessions' = touch(sid)
    /\ outbound' = send(sid, <<Pong(Len(inbound[sid]) + 1)>>)
    /\ metrics' = [metrics EXCEPT !.openaiRequests = metrics.openaiRequests + 1]
    /\ UNCHANGED handlers
    /\ UNCHANGED <<now, keys, rateLimits, agents, inflight, runs, result,
                   appended, invocations, ticks, sent, succeeded>>

\* case 'ping'
OnPing(sid) ==
    /\ onMessage(sid, "ping")
    /\ sessions' = touch(sid)
    /\ outbound' = send(sid, <<Pong(Len(inbound[sid]) + 1)>>)
    /\ UNCHANGED handlers
    /\ UNCHANGED engine

\* default: a type without a case
OnUnknownType(sid) ==
    /\ onMessage(sid, "other")
    /\ sessions' = touch(sid)
    /\ outbound' = send(sid, <<UnknownType(Len(inbound[sid]) + 1)>>)
    /\ UNCHANGED handlers
    /\ UNCHANGED engine

\* JSON.parse (or the read of message.type) throws
OnUnparsable(sid) ==
    /\ onMessage(sid, "unparsable")
    /\ sessions' = afterCatch(sid, touch(sid))
    /\ outbound' = send(sid, handlerCatch(Len(inbound[sid]) + 1, "SyntaxError"))
    /\ UNCHANGED handlers
    /\ UNCHANGED engine

\* case 'execute_agent': executeAgent throws before any request is made.
OnExecuteAgentThrows(sid, agentId, message) ==
    /\ onMessage(sid, "execute_agent")
    /\ ExecuteAgentThrows(agentId, message)
    /\ sessions' = afterCatch(sid, touch(sid))
    /\ outbound' = send(sid, handlerCatch(Len(inbound[sid]) + 1, executeAgentError(agentId)))
    /\ UNCHANGED handlers

\* case 'execute_agent': the handler suspends on the provider request.
OnExecuteAgentRequest(sid, agentId, message) ==
    /\ onMessage(sid, "execute_agent")
    /\ ExecuteAgentRequest(agentId, message)
    /\ sessions' = touch(sid)
    /\ handlers' = handlers \cup
                     {Handler(sid, Len(inbound[sid]) + 1, "execute_agent", FirstFree)}
    /\ UNCHANGED outbound

\* case 'execute_agent': the reply comes back, the handler sends its event and ends.
OnExecuteAgentResume(h, k, t) ==
    /\ Settled
    /\ h \in handlers
    /\ h.type = "execute_agent"
    /\ ExecuteAgentResume(h.ref, k, t)
    /\ IF resumeError(inflight[h.ref].provider, k) = NoError
       THEN /\ outbound' = send(h.sid, <<AgentResponse(h.requestId, h.re)>>)
            /\ sessions' = sessions
       ELSE /\ outbound' = send(h.sid, handlerCatch(h.re,
                                           resumeError(inflight[h.ref].provider, k)))
            /\ sessions' = afterCatch(h.sid, sessions)
    /\ handlers' = handlers \ {h}
    /\ UNCHANGED inbound

\* case 'start_collaboration' with message.agentIds a list: collaborateAgents runs
\* up to its first provider request, or to its end when there is no turn to take.
OnStartCollaboration(sid, agentIds, k) ==
    /\ onMessage(sid, "start_collaboration")
    /\ collaborateAgents(agentIds, 1, wsIterations(k))
    /\ sessions' = touch(sid)
    /\ IF NewRun(agentIds, 1, wsIterations(k)).pc = "done"
       THEN /\ outbound' = send(sid, <<CollaborationResult(Len(inbound[sid]) + 1,
                                                           Len(inbound[sid]) + 1,
                                                           Len(runs) + 1)>>)
            /\ UNCHANGED handlers
       ELSE /\ handlers' = handlers \cup
                     {Handler(sid, Len(inbound[sid]) + 1, "start_collaboration",
                              Len(runs) + 1)}
            /\ UNCHANGED outbound

\* case 'start_collaboration' with message.agentIds absent or not a list: the for
\* ... of loop of collaborateAgents throws a TypeError.
OnStartCollaborationThrows(sid) ==
    /\ onMessage(sid, "start_collaboration")
    /\ sessions' = afterCatch(sid, touch(sid))
    /\ outbound' = send(sid, handlerCatch(Len(inbound[sid]) + 1, "TypeError"))
    /\ UNCHANGED handlers
    /\ UNCHANGED engine

\* Mutant of returned: the handler does not wait for the run to end.
returnedEarly(r) == TRUE

\* collaborateAgents of run r returns in this step.
returned(r) == runs'[r].pc = "done"

\* The handler awaiting run r, if there is one, sends the result once the run returns.
Deliver(r) ==
    IF returned(r) /\ \E h \in handlers : h.type = "start_collaboration" /\ h.ref = r
    THEN LET h == CHOOSE x \in handlers : x.type = "start_collaboration" /\ x.ref = r
         IN /\ outbound' = send(h.sid, <<CollaborationResult(h.requestId, h.re, r)>>)
            /\ handlers' = handlers \ {h}
            /\ UNCHANGED <<sessions, inbound>>
    ELSE UNCHANGED chan

\* ws.on('close')
OnClose(sid) ==
    /\ Settled
    /\ sid \in DOMAIN sessions
    /\ sessions' = delete(sid)
    /\ UNCHANGED <<inbound, outbound, handlers>>
    /\ UNCHANGED engine

\* ws.on('error')
OnError(sid) ==
    /\ Settled
    /\ sid \in DOMAIN sessions
    /\ sessions' = delete(sid)
    /\ UNCHANGED <<inbound, outbound, handlers>>
    /\ UNCHANGED engine

\* Mutant of SessionCleanup: a session idle for exactly the timeout goes too.
SessionCleanupInclusive ==
    /\ Settled
    /\ sessions' = [x \in {y \in DOMAIN sessions :
                            ~(now - sessions[y].lastActivity >= SESSION_TIMEOUT_MS)} |->
                      sessions[x]]
    /\ UNCHANGED <<inbound, outbound, handlers>>
    /\ UNCHANGED engine

\* "Session cleanup interval": the sessions idle for more than the timeout go.
SessionCleanup ==
    /\ Settled
    /\ sessions' = [x \in {y \in DOMAIN sessions :
                            ~(now - sessions[y].lastActivity > SESSION_TIMEOUT_MS)} |->
                      sessions[x]]
    /\ UNCHANGED <<inbound, outbound, handlers>>
    /\ UNCHANGED engine

\* ------------------------------------------- one connection and its messages
InitChannel == Construct(TRUE, TRUE, 2, 2)

\* The agent ids a client names: that of the one agent and one that is unknown.
ChannelCallerIds == 1..2

ChannelDeltas == {SESSION_TIMEOUT_MS + 1}

ChannelKinds == {"ok", "http_error"}

ChannelIdLists == UNION {[1..n -> ChannelCallerIds] : n \in 0..1}

\* The connections a next message can arrive on.
Receiving == {sid \in DOMAIN sessions : Len(inbound[sid]) < MaxMessages}

ChanCreateAgent ==
    \E p \in {"openai"} :
        /\ Settled
        /\ agents = <<>>
        /\ createAgent(Config(Undefined, p))
        /\ UNCHANGED chan

ChanConnect ==
    /\ Len(inbound) < MaxSessions
    /\ OnConnection
    /\ UNCHANGED engine

ChanPing == \E sid \in Receiving : OnPing(sid)

ChanUnknownType == \E sid \in Receiving : OnUnknownType(sid)

ChanUnparsable == \E sid \in Receiving : OnUnparsable(sid)

ChanExecuteThrows ==
    \E sid \in Receiving, a \in ChannelCallerIds, m \in MessageTexts :
        OnExecuteAgentThrows(sid, a, Text(m))

ChanExecuteRequest ==
    \E sid \in Receiving, a \in ChannelCallerIds, m \in MessageTexts :
        OnExecuteAgentRequest(sid, a, Text(m))

ChanExecuteResume ==
    \E h \in handlers, k \in ChannelKinds, t \in MessageTexts :
        OnExecuteAgentResume(h, k, t)

ChanStartCollaboration ==
    \E sid \in Receiving, ids \in ChannelIdLists, k \in 0..1 :
        /\ Len(runs) < MaxRuns
        /\ OnStartCollaboration(sid, ids, k)

ChanStartCollaborationThrows == \E sid \in Receiving : OnStartCollaborationThrows(sid)

ChanRunThrows == \E r \in DOMAIN runs : TurnThrows(r) /\ Deliver(r)

ChanRunRequest == \E r \in DOMAIN runs : TurnRequest(r) /\ UNCHANGED chan

ChanRunResume ==
    \E s \in DOMAIN inflight, k \in ChannelKinds, t \in MessageTexts :
        /\ Settled
        /\ TurnResume(s, k, t)
        /\ Deliver(inflight[s].run)

ChanClose == \E sid \in DOMAIN sessions : OnClose(sid)

ChanError == \E sid \in DOMAIN sessions : OnError(sid)

ChanCleanup == SessionCleanup

ChanTick ==
    \E d \in ChannelDeltas :
        /\ Settled
        /\ ticks < MaxTicks
        /\ Tick(d)
        /\ UNCHANGED chan

NextChannel ==
    \/ ChanCreateAgent
    \/ ChanConnect
    \/ ChanPing
    \/ ChanUnknownType
    \/ ChanUnparsable
    \/ ChanExecuteThrows
    \/ ChanExecuteRequest
    \/ ChanExecuteResume
    \/ ChanStartCollaboration
    \/ ChanStartCollaborationThrows
    \/ ChanRunThrows
    \/ ChanRunRequest
    \/ ChanRunResume
    \/ ChanClose
    \/ ChanError
    \/ ChanCleanup
    \/ ChanTick

SpecChannel == InitChannel /\ [][NextChannel]_vars

\* ------------------------------------------------ sessions and their cleanup
\* Connections that come, send messages that need no agent, and go, while the
\* clock advances and the cleanup interval fires.
SessionDeltas == {1, SESSION_TIMEOUT_MS}

SessionConnect ==
    /\ Len(inbound) < MaxConnections
    /\ OnConnection

SessionTick ==
    \E d \in SessionDeltas :
        /\ ticks < MaxTicks
        /\ Tick(d)
        /\ UNCHANGED chan

NextSession ==
    \/ SessionConnect
    \/ ChanPing
    \/ ChanUnparsable
    \/ ChanClose
    \/ ChanError
    \/ ChanCleanup
    \/ SessionTick

SpecSession == InitChannel /\ [][NextSession]_vars

\* setInterval keeps firing its callback.
SpecSessionFair == SpecSession /\ WF_vars(ChanCleanup)

\* ===================================================================== claims
Memory(a) == agents[a].memory

\* An executeAgent call, on its own or as a turn, ends in an error in this step.
ExecuteAgentFails ==
    \/ \E a \in CallerIds, m \in MessageTexts : ExecuteAgentThrows(a, Text(m))
    \/ \E r \in DOMAIN runs : TurnThrows(r)
    \/ \E s \in DOMAIN inflight, k \in ReplyKinds("openai"), t \in Replies :
          /\ inflight[s].st = "fetch"
          /\ resumeError(inflight[s].provider, k) # NoError
          /\ (ExecuteAgentResume(s, k, t) \/ TurnResume(s, k, t))

\* C1: in every reachable state every agent's memory holds at most MEMORY_CAP
\* (20) messages.
C1_MemoryWithinCap == \A a \in DOMAIN agents : Len(Memory(a)) <= MEMORY_CAP

\* C1 witness: an agent is at the cap after more than 20 messages were pushed, a
\* collaboration turn and a failed call being among the operations performed.
C1_Witness ==
    \E a \in DOMAIN agents :
        /\ Len(Memory(a)) = MEMORY_CAP
        /\ Len(appended[a]) > MEMORY_CAP
        /\ metrics.errors > 0
        /\ \E r \in DOMAIN runs : Len(runs[r].conversation) > 0

\* C2: a step in which an executeAgent call fails leaves the memory of every
\* agent as it was.
C2_FailedCallKeepsMemory ==
    [][ExecuteAgentFails => \A a \in DOMAIN agents : agents'[a].memory = Memory(a)]_vars

Exchanges(a) ==
    Cardinality({x \in 1..Len(appended[a]) : appended[a][x].role = "assistant"})

\* Only completed exchanges have written to the memory of agent a.
PlainHistory(a) == \A x \in 1..Len(appended[a]) : appended[a][x].role # Undefined

\* C3: after n successful exchanges on a fresh agent, 2n messages were appended
\* (user message, then reply) and the memory is the last min(2n, 20) of them, in
\* order.
C3_MemoryIsNewestSuffix ==
    \A a \in DOMAIN agents :
        PlainHistory(a) =>
            /\ Len(appended[a]) = 2 * Exchanges(a)
            /\ \A x \in 1..Len(appended[a]) :
                  appended[a][x].role = (IF x % 2 = 1 THEN "user" ELSE "assistant")
            /\ Len(Memory(a)) = Min(2 * Exchanges(a), MEMORY_CAP)
            /\ \A x \in 1..Len(Memory(a)) :
                  Memory(a)[x] = appended[a][Len(appended[a]) - Len(Memory(a)) + x]

\* C3 witness: eleven or more exchanges, so that the oldest were evicted.
C3_Witness ==
    \E a \in DOMAIN agents :
        /\ PlainHistory(a)
        /\ Exchanges(a) > MEMORY_CAP \div 2
        /\ Memory(a)[MEMORY_CAP] = appended[a][Len(appended[a])]

Participants(r) == Len(runs[r].agentIds)
Succeeded(rec) == rec.error = NoError

\* C4: a run that has returned holds n*k records and its completion time; a
\* record carries either a response and no error, or an error and no response.
C4_RunCompletesWithAllRecords ==
    \A r \in DOMAIN runs :
        /\ runs[r].pc = "done" =>
              /\ Len(runs[r].conversation) = Participants(r) * runs[r].iterations
              /\ runs[r].completed # NotSet
        /\ \A x \in 1..Len(runs[r].conversation) :
              LET rec == runs[r].conversation[x]
              IN \/ rec.error = NoError /\ rec.response # UndefinedText
                 \/ rec.error # NoError /\ rec.response = UndefinedText

\* C4 witness: a returned run of 2 agents and 2 iterations in which turns of
\* both outcomes occurred, a failed one before a successful one.
C4_Witness ==
    \E r \in DOMAIN runs :
        /\ runs[r].pc = "done"
        /\ Participants(r) = 2
        /\ runs[r].iterations = 2
        /\ ~Succeeded(runs[r].conversation[1])
        /\ Succeeded(runs[r].conversation[2])
        /\ ~Succeeded(runs[r].conversation[3])

\* The digest of the records at positions lo+1 .. p of the run's conversation.
DigestOf(r, lo, p) ==
    [kind |-> "digest", text |-> UndefinedText,
     entries |-> [x \in 1..(p - lo) |->
                     [name |-> agents[runs[r].conversation[lo + x].agentId].name,
                      response |-> runs[r].conversation[lo + x].response]]]

\* C5: while every turn has succeeded, the prompt of turn p (0-based, p >= 1) is
\* the digest of the records at 0-based positions max(0, p-n) .. p-1; the first
\* turn of iteration i >= 2 is given the n responses of iteration i-1 only.
C5_PromptIsLastRound ==
    \A r \in DOMAIN runs :
        \A p \in 1..(Len(runs[r].prompts) - 1) :
            (\A x \in 1..p : Succeeded(runs[r].conversation[x])) =>
                /\ runs[r].prompts[p + 1] = DigestOf(r, Max(0, p - Participants(r)), p)
                /\ p % Participants(r) = 0 =>
                      /\ Len(runs[r].prompts[p + 1].entries) = Participants(r)
                      /\ \A x \in (p - Participants(r) + 1)..p :
                            runs[r].conversation[x].iteration = p \div Participants(r)

\* C5 witness: 2 agents, 2 iterations, every turn succeeded, with different
\* replies in the first round.
C5_Witness ==
    \E r \in DOMAIN runs :
        /\ runs[r].pc = "done"
        /\ Participants(r) = 2
        /\ runs[r].iterations = 2
        /\ \A x \in 1..4 : Succeeded(runs[r].conversation[x])
        /\ runs[r].conversation[1].response # runs[r].conversation[2].response
        /\ runs[r].agentIds[1] # runs[r].agentIds[2]
        /\ agents[runs[r].agentIds[1]].name # agents[runs[r].agentIds[2]].name

\* executeAgent is called for agent a in this step, on its own.
Called(a) ==
    \E m \in MessageTexts : ExecuteAgentThrows(a, Text(m)) \/ ExecuteAgentRequest(a, Text(m))

\* A call for agent a gets as far as the rate limiter.
ReachesLimiter(a) ==
    /\ a \in DOMAIN agents
    /\ agents[a].provider \in Providers
    /\ keys[agents[a].provider]

\* The count of the window of p once the lazy reset has been applied.
LazyCount(p) == IF now > rateLimits[p].resetTime THEN 0 ELSE rateLimits[p].requests

RequestSent == inflight' # inflight
RateLimitError == "rate limit exceeded"

\* C6: a call reaching the limiter is admitted iff the count after the lazy reset
\* is below the limit, and an admission adds exactly one to it; only such calls
\* change a window, so the count is the number admitted since the last reset and
\* never exceeds the limit.
C6_AdmittedIffBelowLimit ==
    /\ [](\A p \in Providers : rateLimits[p].requests <= rateLimits[p].limit)
    /\ [][/\ \A a \in CallerIds :
                Called(a) /\ ReachesLimiter(a) =>
                    LET p == agents[a].provider
                    IN IF LazyCount(p) < rateLimits[p].limit
                       THEN /\ RequestSent
                            /\ rateLimits'[p].requests = LazyCount(p) + 1
                       ELSE /\ ~RequestSent
                            /\ rateLimits'[p].requests = LazyCount(p)
          /\ \A p \in Providers :
                rateLimits'[p] # rateLimits[p] =>
                    \E a \in CallerIds :
                        Called(a) /\ ReachesLimiter(a) /\ agents[a].provider = p]_vars

\* C6 witness: a window of limit 2 is full and a call has been denied.
C6_Witness ==
    \E p \in Providers :
        /\ rateLimits[p].limit = 2
        /\ rateLimits[p].requests = 2
        /\ result.error = RateLimitError
        /\ \A a \in DOMAIN agents : agents[a].provider = p

\* C7: a denied call raises the rate-limit error, sends no request and leaves
\* the window (count and reset time) and the provider's request counter as they
\* were.
C7_DenialConsumesNothing ==
    [][\A a \in CallerIds :
          /\ Called(a)
          /\ ReachesLimiter(a)
          /\ ~(LazyCount(agents[a].provider) < rateLimits[agents[a].provider].limit)
          => /\ result'.error = RateLimitError
             /\ ~RequestSent
             /\ rateLimits' = rateLimits
             /\ metrics'.openaiRequests = metrics.openaiRequests
             /\ metrics'.anthropicRequests = metrics.anthropicRequests]_vars

\* C7 witness: with limit 1, one call was admitted and is still awaited, and two
\* calls were denied since; the count is still 1.
C7_Witness ==
    \E p \in Providers :
        /\ rateLimits[p].limit = 1
        /\ rateLimits[p].requests = 1
        /\ \A a \in DOMAIN agents : agents[a].provider = p
        /\ \E s \in DOMAIN inflight : inflight[s].st = "fetch"
        /\ metrics.errors = 2
        /\ invocations = 3
        /\ result.error = RateLimitError

\* C8: once the count has reached the limit, a call is denied while now does not
\* exceed the reset time; a call at a later time resets the window (count 0,
\* reset time now + 60000) and is admitted.
C8_FullWindowDeniesUntilReset ==
    [][\A a \in CallerIds :
          /\ Called(a)
          /\ ReachesLimiter(a)
          /\ rateLimits[agents[a].provider].requests
                 = rateLimits[agents[a].provider].limit
          => LET p == agents[a].provider
             IN IF now <= rateLimits[p].resetTime
                THEN /\ result'.error = RateLimitError
                     /\ ~RequestSent
                     /\ rateLimits' = rateLimits
                ELSE /\ RequestSent
                     /\ rateLimits'[p] = [requests |-> 1,
                                          resetTime |-> now + WINDOW_MS,
                                          limit |-> rateLimits[p].limit]]_vars

\* C8 witness: a call was denied, the window then elapsed, and a later call was
\* admitted into a new window.
C8_Witness ==
    \E p \in Providers :
        /\ rateLimits[p].limit = 1
        /\ rateLimits[p].requests = 1
        /\ rateLimits[p].resetTime = now + WINDOW_MS
        /\ now > WINDOW_MS
        /\ metrics[RequestCounter(p)] = 2
        /\ result.error = RateLimitError
        /\ \A a \in DOMAIN agents : agents[a].provider = p

\* The requests of run r that are awaited.
Awaited(r) == {s \in DOMAIN inflight : inflight[s].st = "fetch" /\ inflight[s].run = r}

\* C9: the record at 0-based position p has iteration floor(p/n)+1 and agent
\* agentIds[p mod n]; a run has at most one executeAgent call in flight, and a
\* turn is begun only when every earlier turn has its record.
C9_TurnsInOrderOneAtATime ==
    \A r \in DOMAIN runs :
        /\ \A x \in 1..Len(runs[r].conversation) :
              /\ runs[r].conversation[x].iteration = ((x - 1) \div Participants(r)) + 1
              /\ runs[r].conversation[x].agentId
                     = runs[r].agentIds[((x - 1) % Participants(r)) + 1]
        /\ Cardinality(Awaited(r)) <= 1
        /\ Len(runs[r].prompts) = Len(runs[r].conversation) + Cardinality(Awaited(r))

\* C9 witness: the last turn of a run of 2 agents and 2 iterations is in flight.
C9_Witness ==
    \E r \in DOMAIN runs :
        /\ Participants(r) = 2
        /\ runs[r].iterations = 2
        /\ runs[r].agentIds[1] # runs[r].agentIds[2]
        /\ Len(runs[r].conversation) = 3
        /\ Awaited(r) # {}

\* C10: every collaborateAgents call eventually returns, with its completion
\* time set, after exactly iterations * n turns.
C10_EveryRunCompletes ==
    \A r \in 1..MaxRuns :
        (r \in DOMAIN runs) ~>
            (/\ r \in DOMAIN runs
             /\ runs[r].pc = "done"
             /\ runs[r].completed # NotSet
             /\ Len(runs[r].prompts) = Participants(r) * runs[r].iterations
             /\ Len(runs[r].conversation) = Participants(r) * runs[r].iterations)

\* C10 witness: a run of 4 turns has returned although its last turn failed.
C10_Witness ==
    \E r \in DOMAIN runs :
        /\ runs[r].pc = "done"
        /\ runs[r].completed # NotSet
        /\ Len(runs[r].conversation) = 4
        /\ ~Succeeded(runs[r].conversation[4])
        /\ Succeeded(runs[r].conversation[1])

Other(p) == IF p = "openai" THEN "anthropic" ELSE "openai"

\* The adapter call of the request in slot s fails on a reply of kind k in this step.
AdapterCallFails(s, k) ==
    /\ inflight[s].st = "fetch"
    /\ replyError(inflight[s].provider, k) # NoError
    /\ \E t \in Replies : ExecuteAgentResume(s, k, t) \/ TurnResume(s, k, t)

RejectedBeforeLimiter(a) ==
    /\ a \in DOMAIN agents
    /\ callAPIError(agents[a].provider) \in {"Unsupported provider", "API key not configured"}

\* C12: a call rejected because the agent's provider is not supported or its key
\* is not configured leaves both windows exactly as they were (count, reset time,
\* no lazy reset), leaves both request counters as they were, and makes no
\* request.
C12_RejectedBeforeLimiter ==
    [][\A a \in CallerIds, m \in MessageTexts :
          RejectedBeforeLimiter(a) /\ ExecuteAgentThrows(a, Text(m)) =>
              /\ rateLimits' = rateLimits
              /\ \A p \in Providers :
                    metrics'[RequestCounter(p)] = metrics[RequestCounter(p)]
              /\ sent' = sent
              /\ inflight' = inflight]_vars

\* C12 witness: a call was rejected for a missing key; the window of that
\* provider is past its reset time and still holds its construction values.
C12_Witness ==
    \E a \in DOMAIN agents :
        /\ agents[a].provider \in Providers
        /\ ~keys[agents[a].provider]
        /\ result.error = "API key not configured"
        /\ now > rateLimits[agents[a].provider].resetTime
        /\ rateLimits[agents[a].provider].resetTime = WINDOW_MS
        /\ sent[agents[a].provider] = 0

\* C13: executeAgent on an id that is not in the registry fails with "Agent not
\* found" and changes no rate limit window, no request or error counter and no
\* agent (memory included); no request is made.
C13_UnknownAgentChangesNothing ==
    [][\A a \in CallerIds, m \in MessageTexts :
          a \notin DOMAIN agents /\ ExecuteAgentThrows(a, Text(m)) =>
              /\ result'.error = "Agent not found"
              /\ rateLimits' = rateLimits
              /\ metrics' = metrics
              /\ agents' = agents
              /\ sent' = sent
              /\ inflight' = inflight]_vars

\* C13 witness: the last call named an unknown id, after an exchange had filled an
\* agent's memory and a window had passed its reset time; no error is counted.
C13_Witness ==
    /\ result.error = "Agent not found"
    /\ metrics.errors = 0
    /\ \E a \in DOMAIN agents :
          /\ Len(Memory(a)) = 2
          /\ now > rateLimits[agents[a].provider].resetTime

\* The agent the registry gained in this step.
Created == agents'[Cardinality(DOMAIN agents) + 1]

\* createAgent is called with provider p in its config.
CreateAgentWith(p) == \E nm \in ConfigNames : createAgent(Config(nm, p))

C18_CounterCountsSuccesses ==
    Idle => \A p \in Providers : metrics[RequestCounter(p)] = succeeded[p]

\* C18 amended: each provider's request counter equals the number of requests
\* made to that provider (the calls its window admitted), whether they later
\* succeed, fail or are still awaited; it is never below the number of calls that
\* completed successfully.
C18_CounterCountsRequests ==
    \A p \in Providers :
        /\ metrics[RequestCounter(p)] = sent[p]
        /\ metrics[RequestCounter(p)] >= succeeded[p]

\* C18 witness: of two requests made to a provider one has succeeded and one has
\* failed, and the counter stands at two.
C18_Witness ==
    \E p \in Providers :
        /\ metrics[RequestCounter(p)] = 2
        /\ succeeded[p] = 1
        /\ metrics.errors = 1
        /\ Idle

\* C19: for the same reply text and usage, callAPI returns the same normalized
\* reply on the Anthropic path as on the OpenAI path, and a call that gets the
\* canned reply t to message m appends the same two messages to the agent's
\* memory and returns the same response text and usage whatever the agent's
\* provider is.
C19_SameOutcomeOnBothPaths ==
    [][\A s \in DOMAIN inflight, t \in Replies :
          ExecuteAgentResume(s, "ok", t) =>
              /\ callAPIResult(inflight[s].provider, t) = callAPIResult("openai", t)
              /\ agents'[inflight[s].agentId].memory =
                    trimMemory(Memory(inflight[s].agentId)
                               \o <<UserMessage(inflight[s].message), AssistantMessage(t)>>)
              /\ result' = [error |-> NoError, response |-> t, usage |-> Usage(t)]]_vars

\* C19 witness: an openai agent and an anthropic agent have each had one exchange
\* with the same message and the same canned reply, and hold identical memories.
C19_Witness ==
    \E a, b \in DOMAIN agents :
        /\ agents[a].provider = "openai"
        /\ agents[b].provider = "anthropic"
        /\ Len(Memory(a)) = 2
        /\ Memory(a) = Memory(b)
        /\ succeeded = [p \in Providers |-> 1]
        /\ result.error = NoError
        /\ result.usage = Usage(result.response)

\* C20: when the request of a call fails with a provider error (non-success
\* status or transport error) and the other provider has its key and room in its
\* window, the platform makes a request to the other provider.
C20_SwitchesProviderOnError ==
    [][\A s \in DOMAIN inflight, k \in {"http_error", "network_error"} :
          /\ AdapterCallFails(s, k)
          /\ keys[Other(inflight[s].provider)]
          /\ checkRateLimit(Other(inflight[s].provider))
          => sent'[Other(inflight[s].provider)] = sent[Other(inflight[s].provider)] + 1]_vars

\* The places in the events of connection sid of those sent for its message i.
EventsFor(sid, i) == {x \in 1..Len(outbound[sid]) : outbound[sid][x].re = i}

EventFor(sid, i) == outbound[sid][CHOOSE x \in EventsFor(sid, i) : TRUE]

\* The handler of message i of connection sid has not ended yet.
Pending(sid, i) == \E h \in handlers : h.sid = sid /\ h.re = i

TypesOf(events) == {events[x].type : x \in 1..Len(events)}

Last(s) == s[Len(s)]

\* The event types C15 gives for an inbound message of the given type.
Answers(type) ==
    CASE type = "ping" -> {"pong"}
      [] type = "execute_agent" -> {"agent_response", "error"}
      [] type = "start_collaboration" -> {"collaboration_result"}
      [] OTHER -> {"error"}

C16_MessagesNeverEndTheSession ==
    [][(\E sid \in DOMAIN sessions : sid \notin DOMAIN sessions') =>
          /\ inbound' = inbound
          /\ outbound' = outbound
          /\ handlers' = handlers
          /\ \/ \E sid \in DOMAIN sessions : OnClose(sid) \/ OnError(sid)
             \/ SessionCleanup]_vars

\* C16 witness: a connection sent an unparsable payload, then an execute_agent
\* that failed, then a ping; it got error, error and pong, and its session is
\* still in the Map.
C16_Witness ==
    \E sid \in DOMAIN sessions :
        /\ Len(inbound[sid]) = MaxMessages
        /\ [i \in 1..MaxMessages |-> inbound[sid][i].type] =
              <<"unparsable", "execute_agent", "ping">>
        /\ [x \in 1..Len(outbound[sid]) |-> outbound[sid][x].type] =
              <<"connected", "error", "error", "pong">>

\* The handlers of connection sid suspended in a start_collaboration.
Collaborating(sid) == {h \in handlers : h.sid = sid /\ h.type = "start_collaboration"}

\* C17 as stated: while a start_collaboration request of a connection is still
\* running, no other inbound message of that connection is processed.
C17_ChannelWaitsForCollaboration ==
    [][\A sid \in DOMAIN inbound :
          Collaborating(sid) # {} => inbound'[sid] = inbound[sid]]_vars

\* C17 amended: while a start_collaboration request of a connection is still
\* running, later inbound messages of that connection are processed as they
\* arrive, at points where the run is suspended on a provider request: a ping, an
\* unknown type or an unparsable payload is answered in that step, ahead of the
\* collaboration_result, and the collaboration goes on.  Only the
\* collaboration_result waits: it is not sent while the run is under way and is
\* sent for a run that has completed.
C17_OnlyTheResultWaits ==
    /\ [](\A h \in handlers :
            h.type = "start_collaboration" =>
                runs[h.ref].pc # "done" /\ EventsFor(h.sid, h.re) = {})
    /\ [](\A sid \in DOMAIN outbound : \A x \in 1..Len(outbound[sid]) :
            outbound[sid][x].type = "collaboration_result" =>
                runs[outbound[sid][x].ref].pc = "done")
    /\ [][\A sid \in DOMAIN inbound :
            Collaborating(sid) # {} /\ inbound'[sid] # inbound[sid] =>
                /\ \A h \in Collaborating(sid) : runs[h.ref].pc = "await" /\ h \in handlers'
                /\ Last(inbound'[sid]).type \in {"ping", "other", "unparsable"} =>
                      /\ Len(outbound'[sid]) = Len(outbound[sid]) + 1
                      /\ Last(outbound'[sid]).re = Len(inbound'[sid])]_vars

\* C17 witness: a ping that arrived after a start_collaboration got its pong
\* before the collaboration_result was sent.
C17_Witness ==
    \E sid \in DOMAIN outbound : \E x, y \in 1..Len(outbound[sid]) :
        /\ x < y
        /\ outbound[sid][x].type = "pong"
        /\ outbound[sid][y].type = "collaboration_result"
        /\ outbound[sid][x].re > outbound[sid][y].re

\* C21: a createAgent step adds exactly one agent, under an id no agent had; no
\* other step changes the set of ids; no step removes an agent or changes the
\* name, provider or model stored under an id; the registry holds the agents
\* created so far and no others.
C21_RegistryOnlyGrows ==
    /\ [](DOMAIN agents = DOMAIN appended)
    /\ [][/\ \A id \in DOMAIN agents :
               /\ id \in DOMAIN agents'
               /\ agents'[id].name = agents[id].name
               /\ agents'[id].provider = agents[id].provider
               /\ agents'[id].model = agents[id].model
          /\ IF \E p \in ConfigProviders : CreateAgentWith(p)
             THEN Cardinality(DOMAIN agents' \ DOMAIN agents) = 1
             ELSE DOMAIN agents' = DOMAIN agents]_vars

\* C21 witness: two agents were created, a collaboration over them has completed
\* with turns that wrote to memory, and both agents are in the registry.
C21_Witness ==
    /\ DOMAIN agents = 1..MaxAgents
    /\ \E r \in DOMAIN runs : runs[r].pc = "done" /\ Len(runs[r].conversation) > 1
    /\ \A a \in DOMAIN agents : Len(Memory(a)) > 0

\* A turn of run r ends in this step.
TurnEnds(r) ==
    \/ TurnThrows(r)
    \/ \E s \in DOMAIN inflight, k \in CollabKinds, t \in Replies :
          inflight[s].run = r /\ TurnResume(s, k, t)

\* C22: in every step the turn list of a run either stays as it is or gains one
\* record at its end, the records before it unchanged; it gains that record
\* exactly in the steps in which a turn ends; and a run whose completion
\* timestamp is set is never changed again.
C22_RunIsAppendOnly ==
    [][\A r \in DOMAIN runs :
          /\ IF TurnEnds(r)
             THEN /\ Len(runs'[r].conversation) = Len(runs[r].conversation) + 1
                  /\ SubSeq(runs'[r].conversation, 1, Len(runs[r].conversation)) =
                        runs[r].conversation
             ELSE runs'[r].conversation = runs[r].conversation
          /\ runs[r].completed # NotSet => runs'[r] = runs[r]]_vars

\* C22 witness: a completed run of two participants holds four records, failed
\* and successful ones among them.
C22_Witness ==
    \E r \in DOMAIN runs :
        /\ runs[r].completed # NotSet
        /\ Len(runs[r].conversation) = 4
        /\ \E x, y \in 1..4 :
              /\ Succeeded(runs[r].conversation[x])
              /\ ~Succeeded(runs[r].conversation[y])

\* The digest of the most recent n of the first p records of run r, n being the
\* number of participants.
DigestAfter(r, p) == Digest(SubSeq(runs[r].conversation, 1, p), Participants(r))

\* C23 as stated: after every turn, succeeded or failed, the prompt of the next
\* turn is the digest of the most recent n records.
C23_PromptRederivedAfterEveryTurn ==
    \A r \in DOMAIN runs :
        \A p \in 1..(Len(runs[r].prompts) - 1) :
            runs[r].prompts[p + 1] = DigestAfter(r, p)

\* C23 amended: the first prompt is the goal prompt; after a turn that succeeded
\* the prompt of the next turn is the digest of the most recent n records (all
\* records while fewer than n exist, records of failed turns included); after a
\* turn that failed the prompt of the next turn is the prompt the failed turn had.
C23_PromptRederivedAfterSuccess ==
    \A r \in DOMAIN runs :
        /\ runs[r].prompts # <<>> => runs[r].prompts[1] = Goal(runs[r].goal)
        /\ \A p \in 1..(Len(runs[r].prompts) - 1) :
              runs[r].prompts[p + 1] =
                  (IF Succeeded(runs[r].conversation[p]) THEN DigestAfter(r, p)
                   ELSE runs[r].prompts[p])

\* C23 witness: in a run of two participants the first turn failed, the second
\* got the goal prompt again and succeeded, and the third got a digest of both
\* records.
C23_Witness ==
    \E r \in DOMAIN runs :
        /\ Participants(r) = 2
        /\ Len(runs[r].prompts) >= 3
        /\ ~Succeeded(runs[r].conversation[1])
        /\ Succeeded(runs[r].conversation[2])
        /\ runs[r].prompts[2] = Goal(runs[r].goal)
        /\ Len(runs[r].prompts[3].entries) = 2

\* C24: calls overlap only at the awaited request, after check and increment have
\* both run: in a window that was never reset the requests made to a provider
\* are as many as its count and never more than its limit, however the calls
\* overlap; and a call admitted when exactly one slot remained leaves the
\* window full, so that of the calls overlapping with it none is admitted.
C24_CheckAndIncrementTogether ==
    /\ [](\A p \in Providers :
            rateLimits[p].resetTime = WINDOW_MS =>
                sent[p] = rateLimits[p].requests /\ sent[p] <= rateLimits[p].limit)
    /\ [][\A a \in CallerIds :
            /\ Called(a)
            /\ ReachesLimiter(a)
            /\ LazyCount(agents[a].provider) = rateLimits[agents[a].provider].limit - 1
            /\ RequestSent
            => /\ rateLimits'[agents[a].provider].requests =
                     rateLimits'[agents[a].provider].limit
               /\ now' <= rateLimits'[agents[a].provider].resetTime]_vars

\* C24 witness: with a limit of 1, a second call to the provider was denied while
\* the request of the first was still awaited.
C24_Witness ==
    \E s \in DOMAIN inflight :
        /\ inflight[s].st = "fetch"
        /\ rateLimits[inflight[s].provider].limit = 1
        /\ sent[inflight[s].provider] = 1
        /\ result.error = RateLimitError
        /\ invocations = 2
        /\ ticks = 0
        /\ \A a \in DOMAIN agents : agents[a].provider = inflight[s].provider

\* C25: in every reachable state the memory of every agent consists of complete
\* adjacent pairs: its length is even and at most MEMORY_CAP, every message at
\* an odd place is a user message and the one after it is the assistant reply.
C25_MemoryIsCompletePairs ==
    \A a \in DOMAIN agents :
        /\ Len(Memory(a)) % 2 = 0
        /\ Len(Memory(a)) <= MEMORY_CAP
        /\ \A x \in 1..Len(Memory(a)) :
              Memory(a)[x].role = (IF x % 2 = 1 THEN "user" ELSE "assistant")


\* A call of executeAgent on agent a starts and reaches the awaited request.
Started(a) == \E m \in MessageTexts : ExecuteAgentRequest(a, Text(m))

InFlightOn(a) ==
    {s \in DOMAIN inflight : inflight[s].st = "fetch" /\ inflight[s].agentId = a}

\* The part of a call's message list between the system message and the
\* caller's message.
Context(c) == SubSeq(c.messages, 2, Len(c.messages) - 1)

\* C26 as stated: calls on one agent are serialized, a call builds its message
\* list only when no earlier call on that agent is still in flight.
C26_CallsOnOneAgentSerialized ==
    [][\A a \in DOMAIN agents : Started(a) => InFlightOn(a) = {}]_vars

\* C26 as amended: calls on one agent are not serialized. Every call builds its
\* message list at once when it starts, from the memory as it is then: the
\* context it sends holds the exchanges of the calls on that agent that had
\* succeeded before it started (the newest MEMORY_CAP messages of them), and
\* nothing of a call that is still in flight.
C26_ContextIsMemoryAtStart ==
    [][\A a \in DOMAIN agents :
          Started(a) =>
              /\ inflight'[FirstFree].agentId = a
              /\ Context(inflight'[FirstFree]) = LastN(appended[a], MEMORY_CAP)
              /\ agents'[a].memory = agents[a].memory]_vars

\* C26 witness: a call is in flight on an agent whose memory has since grown by
\* the exchange of a call that was started earlier and succeeded later; the
\* context of the call in flight lacks that exchange.
C26_Witness ==
    \E s \in DOMAIN inflight :
        /\ inflight[s].st = "fetch"
        /\ inflight[s].run = Direct
        /\ Context(inflight[s]) = <<>>
        /\ Len(Memory(inflight[s].agentId)) = 2
        /\ Memory(inflight[s].agentId)[1].role = "user"


\* The reply to a request of a direct call to provider p comes back, good or bad.
Replied(p) ==
    \E s \in DOMAIN inflight, k \in ReplyKinds(p), t \in Replies :
        inflight[s].provider = p /\ ExecuteAgentResume(s, k, t)

\* C27: the windows of the two providers are independent. A call addressed to
\* provider p, whether it is admitted, denied, rejected for a missing credential
\* or fails at the provider, leaves the count and the reset time of the other
\* provider as they were; and the call is admitted exactly when p's own
\* credential is set and p's own window, after its own lazy reset, has room.
C27_WindowsAreIndependent ==
    [][\A a \in DOMAIN agents :
          /\ Called(a) /\ agents[a].provider \in Providers
             => /\ rateLimits'[Other(agents[a].provider)] =
                      rateLimits[Other(agents[a].provider)]
                /\ RequestSent <=>
                      /\ keys[agents[a].provider]
                      /\ LazyCount(agents[a].provider) <
                            rateLimits[agents[a].provider].limit
          /\ Called(a) /\ agents[a].provider \notin Providers
             => rateLimits' = rateLimits /\ ~RequestSent
          /\ Replied(agents[a].provider) => rateLimits' = rateLimits]_vars

\* C27 witness: the window of one provider is full and a call to it has been
\* denied, while a call to the other provider was admitted and its window counts
\* that one request only.
C27_Witness ==
    \E p \in Providers :
        /\ rateLimits[p].requests = rateLimits[p].limit
        /\ result.error = RateLimitError
        /\ invocations = 3
        /\ sent[p] = 1
        /\ sent[Other(p)] = 1
        /\ rateLimits[Other(p)].requests = 1
        /\ ticks = 0


\* C28: the message list a call of executeAgent hands to callAPI is one system
\* message with the agent's instructions, then the agent's memory as it is when
\* the call starts, in stored order, then one user message with the caller's
\* message; it goes out under the agent's own provider and model.
C28_MessageListOfACall ==
    [][\A r \in DOMAIN runs :
          TurnRequest(r) =>
              LET a == CurrentAgent(runs[r])
                  c == inflight'[FirstFree]
              IN /\ Len(c.messages) = Len(Memory(a)) + 2
                 /\ c.messages[1].role = "system"
                 /\ c.messages[1].content.kind = agents[a].instructions
                 /\ \A x \in 1..Len(Memory(a)) : c.messages[x + 1] = Memory(a)[x]
                 /\ c.messages[Len(c.messages)].role = "user"
                 /\ c.messages[Len(c.messages)].content = runs[r].currentMessage
                 /\ c.provider = agents[a].provider
                 /\ c.model = agents[a].model]_vars

\* C28 witness: a request is in flight for an agent with instructions of its own
\* and one exchange in memory; its list is the system message, the two messages
\* of memory and the caller's message, a digest of the run so far.
C28_Witness ==
    \E s \in DOMAIN inflight :
        /\ inflight[s].st = "fetch"
        /\ agents[inflight[s].agentId].instructions # DefaultInstructions
        /\ Len(Memory(inflight[s].agentId)) = 2
        /\ Len(inflight[s].messages) = 4
        /\ inflight[s].messages[4].content.kind = "digest"
        /\ inflight[s].provider = "anthropic"


\* The places of the system messages of a message list, and of the others.
SystemPlaces(ms) == {x \in 1..Len(ms) : ms[x].role = "system"}
OtherPlaces(ms) == {x \in 1..Len(ms) : ms[x].role # "system"}

\* The place the message at x has among the messages at the places P.
Rank(P, x) == Cardinality({y \in P : y <= x})

\* The body b carries the conversion of the message list ms: the system field is
\* the contents of the system messages in their order with a newline between
\* neighbours, the messages field is the other messages in their order.
Converted(ms, b) ==
    /\ Len(b.system) = Max(0, 2 * Cardinality(SystemPlaces(ms)) - 1)
    /\ \A x \in SystemPlaces(ms) :
          b.system[2 * Rank(SystemPlaces(ms), x) - 1] = ms[x].content
    /\ \A y \in 1..Len(b.system) : y % 2 = 0 => b.system[y] = Newline
    /\ Len(b.messages) = Cardinality(OtherPlaces(ms))
    /\ \A x \in OtherPlaces(ms) : b.messages[Rank(OtherPlaces(ms), x)] = ms[x]

AnthropicRequests ==
    {s \in DOMAIN inflight : inflight[s].st = "fetch" /\ inflight[s].provider = "anthropic"}

\* C29: for every message list given to the Anthropic method, the request
\* carries the newline-joined contents of all its system messages, in
\* order, as the system field, and exactly its other messages, in order, as the
\* messages array.
C29_ConversionOfEveryList ==
    \A s \in AnthropicRequests : Converted(inflight[s].messages, inflight[s].body)

\* What does hold of C29: the same for every message list when the options name
\* neither system nor messages. The options are spread into the body last, and
\* one that names system or messages replaces the converted field.
C29_ConversionUnlessOverridden ==
    \A s \in AnthropicRequests :
        /\ DOMAIN inflight[s].options \cap {"system", "messages"} = {}
           => Converted(inflight[s].messages, inflight[s].body)
        /\ \A key \in DOMAIN inflight[s].options :
              inflight[s].body[key] = inflight[s].options[key]

\* The case of C29 without an override is reached: a request is in flight for a list of two different system
\* messages with a user message between them and an assistant message after
\* them, sent with an option of another name.
C29_Witness ==
    \E s \in AnthropicRequests :
        /\ Len(inflight[s].messages) = MaxLen
        /\ SystemPlaces(inflight[s].messages) = {1, 3}
        /\ inflight[s].messages[1] # inflight[s].messages[3]
        /\ inflight[s].messages[2].role = "user"
        /\ inflight[s].messages[4].role = "assistant"
        /\ DOMAIN inflight[s].options = {"top_p"}
        /\ Len(inflight[s].body.system) = 3
        /\ Len(inflight[s].body.messages) = 2


\* A ping of connection sid is received in this step.
PingReceived(sid) ==
    /\ Len(inbound'[sid]) = Len(inbound[sid]) + 1
    /\ Last(inbound'[sid]).type = "ping"

\* C30: the step that receives a ping sends its pong and nothing else on that
\* connection, whatever requests of the connection are still under way, and it
\* leaves the engine alone: agents and their memories, the rate-limit windows,
\* the request and error counters, the requests in flight and the runs are as
\* before, and no request of the connection is dropped or added.
C30_PingOnlyPongs ==
    [][\A sid \in DOMAIN inbound :
          PingReceived(sid) =>
              /\ outbound'[sid] = Append(outbound[sid], Pong(Len(inbound'[sid])))
              /\ handlers' = handlers
              /\ agents' = agents
              /\ rateLimits' = rateLimits
              /\ metrics' = metrics
              /\ inflight' = inflight
              /\ runs' = runs
              /\ <<sent, succeeded, invocations, appended>>' =
                    <<sent, succeeded, invocations, appended>>]_vars

\* C30 witness: the third message of a connection, a ping, has its pong while
\* the execute_agent and the start_collaboration request sent before it are both
\* still waiting for a provider.
C30_Witness ==
    \E sid \in DOMAIN outbound :
        /\ \E h \in handlers : h.sid = sid /\ h.type = "execute_agent" /\ h.re < 3
        /\ \E h \in handlers : h.sid = sid /\ h.type = "start_collaboration" /\ h.re < 3
        /\ Len(outbound[sid]) > 0
        /\ Last(outbound[sid]) = Pong(3)
        /\ \A x \in 1..Len(outbound[sid]) :
              outbound[sid][x].type \notin {"agent_response", "collaboration_result"}


\* The events of connection sid sent in reply to an execute_agent or
\* start_collaboration message.
Replies2Requests(sid) ==
    {x \in 1..Len(outbound[sid]) :
        /\ outbound[sid][x].re \in 1..Len(inbound[sid])
        /\ inbound[sid][outbound[sid][x].re].type \in {"execute_agent", "start_collaboration"}}

\* C31 as stated: every event sent in reply to an execute_agent or
\* start_collaboration request, an error event too, carries the requestId of the
\* inbound message that caused it.
C31_EveryReplyCorrelated ==
    \A sid \in DOMAIN outbound : \A x \in Replies2Requests(sid) :
        outbound[sid][x].requestId = inbound[sid][outbound[sid][x].re].requestId

\* C31 as amended: agent_response and collaboration_result carry the requestId of
\* the inbound message that caused them; an error event sent in reply to such a
\* request carries no requestId at all, only the error's message.
C31_ResultsCorrelatedErrorsNot ==
    \A sid \in DOMAIN outbound : \A x \in Replies2Requests(sid) :
        /\ outbound[sid][x].type \in {"agent_response", "collaboration_result", "error"}
        /\ outbound[sid][x].type \in {"agent_response", "collaboration_result"}
           => outbound[sid][x].requestId = inbound[sid][outbound[sid][x].re].requestId
        /\ outbound[sid][x].type = "error"
           => /\ outbound[sid][x].requestId = NoRequestId
              /\ outbound[sid][x].error # NoError

\* C31 witness: one connection has got an agent_response and a
\* collaboration_result, each with the requestId of its request, and an error in
\* reply to an execute_agent that failed at the provider, with no requestId.
C31_Witness ==
    \E sid \in DOMAIN outbound : \E x, y, z \in Replies2Requests(sid) :
        /\ outbound[sid][x].type = "agent_response"
        /\ outbound[sid][x].requestId = outbound[sid][x].re
        /\ outbound[sid][y].type = "collaboration_result"
        /\ outbound[sid][y].requestId = outbound[sid][y].re
        /\ outbound[sid][z].type = "error"
        /\ outbound[sid][z].error = "API error"
        /\ inbound[sid][outbound[sid][z].re].type = "execute_agent"


\* The requests to provider p in flight that the limiter admitted at a time in
\* the closed interval from lo to hi.
AdmittedIn(p, lo, hi) ==
    {s \in DOMAIN inflight :
        /\ inflight[s].st = "fetch"
        /\ inflight[s].provider = p
        /\ lo <= inflight[s].at
        /\ inflight[s].at <= hi}

\* C32 as stated: the limit bounds the calls of any 60 seconds; the calls to a
\* provider admitted within WINDOW_MS of one another are at most its limit.
C32_LimitPerSlidingMinute ==
    \A p \in Providers : \A s \in DOMAIN inflight :
        inflight[s].st = "fetch" /\ inflight[s].provider = p =>
            Cardinality(AdmittedIn(p, inflight[s].at, inflight[s].at + WINDOW_MS - 1))
                <= rateLimits[p].limit

\* C32 as amended: the limit bounds the calls of one fixed window. The calls to
\* a provider admitted since its window was last reset are at most its count,
\* which is at most its limit; an admission raises by one the count the lazy
\* reset leaves; and a window that is reset ends WINDOW_MS after the check that
\* reset it, so calls admitted at the end of one window and at the start of the
\* next can be more than the limit within 60 seconds.
C32_LimitPerFixedWindow ==
    /\ [](\A p \in Providers :
            /\ rateLimits[p].requests <= rateLimits[p].limit
            /\ Cardinality(AdmittedIn(p, rateLimits[p].resetTime - WINDOW_MS,
                                      rateLimits[p].resetTime))
                  <= rateLimits[p].requests)
    /\ [][\A p \in Providers :
            /\ sent'[p] # sent[p]
               => /\ LazyCount(p) < rateLimits[p].limit
                  /\ rateLimits'[p].requests = LazyCount(p) + 1
            /\ rateLimits'[p].resetTime # rateLimits[p].resetTime
               => /\ now > rateLimits[p].resetTime
                  /\ rateLimits'[p].resetTime = now + WINDOW_MS]_vars

\* C32 witness: with a limit of 1, two requests to one provider are in flight,
\* admitted one millisecond apart, the first as the last call of a window and
\* the second as the first call of the next.
C32_Witness ==
    \E p \in Providers : \E s, u \in DOMAIN inflight :
        /\ rateLimits[p].limit = 1
        /\ rateLimits[p].requests = 1
        /\ inflight[s].st = "fetch" /\ inflight[s].provider = p
        /\ inflight[u].st = "fetch" /\ inflight[u].provider = p
        /\ inflight[u].at = inflight[s].at + 1
        /\ rateLimits[p].resetTime = inflight[u].at + WINDOW_MS


\* Connection sid has a session whose last activity is more than the timeout ago.
StaleSession(sid) ==
    /\ sid \in DOMAIN sessions
    /\ now - sessions[sid].lastActivity > SESSION_TIMEOUT_MS

\* C33: a run of the cleanup interval removes exactly the sessions whose last
\* activity is more than 30 minutes old and keeps every other session as it is;
\* every inbound message, a malformed one too, sets the last activity of its
\* session to the time it arrives; and while the interval keeps firing no
\* session stays stale for ever: it is removed, unless a message refreshes it.
C33_StaleSessionsAreCleanedUp ==
    /\ [][SessionCleanup =>
            /\ DOMAIN sessions' = {sid \in DOMAIN sessions : ~StaleSession(sid)}
            /\ \A sid \in DOMAIN sessions' : sessions'[sid] = sessions[sid]]_vars
    /\ [][\A sid \in DOMAIN inbound :
            Len(inbound'[sid]) > Len(inbound[sid]) =>
                /\ sid \in DOMAIN sessions'
                /\ sessions'[sid].lastActivity = now]_vars
    /\ \A sid \in 1..MaxConnections : StaleSession(sid) ~> ~StaleSession(sid)

\* C33 witness: the first connection, whose last message was a malformed one at
\* time 0, is gone at one millisecond past the timeout, and the second
\* connection, made when the first was exactly 30 minutes idle, is still there.
C33_Witness ==
    /\ DOMAIN sessions = {2}
    /\ now = SESSION_TIMEOUT_MS + 1
    /\ sessions[2].lastActivity = SESSION_TIMEOUT_MS
    /\ Len(inbound[1]) > 0
    /\ Last(inbound[1]).type = "unparsable"
    /\ Len(outbound[1]) = Len(inbound[1]) + 1


\* A turn of run r ends in the catch block.
TurnFails(r) ==
    \/ TurnThrows(r)
    \/ \E s \in DOMAIN inflight, k \in CollabKinds, t \in Replies :
          /\ inflight[s].run = r
          /\ resumeError(inflight[s].provider, k) # NoError
          /\ TurnResume(s, k, t)

\* The prompt the agent of a request in flight has been sent.
PromptSent(s) == Last(inflight[s].messages).content

\* C34: a turn that fails leaves the pending prompt as it is, and the agent
\* that runs right after a failed turn is sent the very prompt the failed turn
\* was given; that is the goal prompt while no turn has succeeded.
C34_FailedTurnKeepsPrompt ==
    /\ [][\A r \in DOMAIN runs :
            TurnFails(r) => runs'[r].currentMessage = runs[r].currentMessage]_vars
    /\ [](\A s \in DOMAIN inflight :
            inflight[s].st = "fetch" /\ inflight[s].run # Direct =>
                LET r == inflight[s].run
                    p == Len(runs[r].conversation)
                IN /\ p >= 1 /\ ~Succeeded(runs[r].conversation[p])
                      => PromptSent(s) = runs[r].prompts[p]
                   /\ (\A q \in 1..p : ~Succeeded(runs[r].conversation[q]))
                      => PromptSent(s) = Goal(runs[r].goal))

\* C34 witness: the first turn of a run succeeded, the second failed, and the
\* request of the third is in flight with the digest the second was given.
C34_Witness ==
    \E s \in DOMAIN inflight :
        /\ inflight[s].st = "fetch"
        /\ inflight[s].run # Direct
        /\ Len(runs[inflight[s].run].conversation) = 2
        /\ Succeeded(runs[inflight[s].run].conversation[1])
        /\ ~Succeeded(runs[inflight[s].run].conversation[2])
        /\ PromptSent(s).kind = "digest"
        /\ PromptSent(s) = runs[inflight[s].run].prompts[2]


\* C35: the prompt built after a successful turn p has one entry for each of the
\* last min(n, p) records, in their order, the records of failed turns among
\* them; the entry of a successful turn carries the agent's name and the
\* response, the entry of a failed turn carries neither.
C35_DigestCoversFailedTurns ==
    \A r \in DOMAIN runs :
        \A p \in 1..(Len(runs[r].prompts) - 1) :
            Succeeded(runs[r].conversation[p]) =>
                LET d == runs[r].prompts[p + 1].entries
                    m == Min(Participants(r), p)
                IN /\ Len(d) = m
                   /\ \A x \in 1..m :
                         LET rec == runs[r].conversation[p - m + x]
                         IN IF Succeeded(rec)
                            THEN /\ d[x].name = agents[rec.agentId].name
                                 /\ d[x].response = rec.response
                            ELSE /\ d[x].name = Undefined
                                 /\ d[x].response = UndefinedText

\* C35 witness: the first turn of a run of two participants failed, the second
\* succeeded, and the third was given a digest of two entries, the first of
\* them with no name and no response.
C35_Witness ==
    \E r \in DOMAIN runs :
        /\ Participants(r) = 2
        /\ Len(runs[r].prompts) >= 3
        /\ ~Succeeded(runs[r].conversation[1])
        /\ Succeeded(runs[r].conversation[2])
        /\ Len(runs[r].prompts[3].entries) = 2
        /\ runs[r].prompts[3].entries[1].name = Undefined
        /\ runs[r].prompts[3].entries[1].response = UndefinedText
        /\ runs[r].prompts[3].entries[2].name # Undefined


\* The requests to provider p that are awaited.
AwaitedBy(p) ==
    {s \in DOMAIN inflight : inflight[s].st = "fetch" /\ inflight[s].provider = p}

\* The reply of kind k to the request in slot s arrives in this step.
ReplyArrives(s, k) == \E t \in Replies : ExecuteAgentResume(s, k, t)

\* C36: an admitted call takes one slot of its provider's window and keeps it
\* whatever the provider answers. No reply, good or bad, changes a window; so
\* in a window that was never reset the count is the number of calls admitted,
\* which the calls that succeeded and the calls still awaited never exceed, and
\* an admission adds one to the count the lazy reset leaves.
C36_FailedCallKeepsItsSlot ==
    /\ [][\A s \in DOMAIN inflight : \A k \in ReplyKinds("openai") :
            ReplyArrives(s, k) =>
                /\ rateLimits' = rateLimits
                /\ replyError(inflight[s].provider, k) # NoError
                   => succeeded' = succeeded /\ sent' = sent]_vars
    /\ [](\A p \in Providers :
            rateLimits[p].resetTime = WINDOW_MS =>
                /\ rateLimits[p].requests = sent[p]
                /\ succeeded[p] + Cardinality(AwaitedBy(p)) <= rateLimits[p].requests)
    /\ [][\A p \in Providers :
            sent'[p] = sent[p] + 1 => rateLimits'[p].requests = LazyCount(p) + 1]_vars

\* C36 witness: both calls admitted into a window of limit 2 have failed at the
\* provider, the window is still full and a third call has been denied.
C36_Witness ==
    \E p \in Providers :
        /\ rateLimits[p].limit = 2
        /\ rateLimits[p].requests = 2
        /\ sent[p] = 2
        /\ succeeded[p] = 0
        /\ AwaitedBy(p) = {}
        /\ result.error = RateLimitError
        /\ invocations = 3
        /\ ticks = 0


\* The rate-limit check of provider p is evaluated in this step.
Checked(p) ==
    \E a \in DOMAIN agents :
        Called(a) /\ ReachesLimiter(a) /\ agents[a].provider = p

\* C37: the clock never goes back; right after a rate-limit check of a provider
\* made at time t its reset time is at least t and at most t + 60000; and no
\* step lowers the reset time of a provider.
C37_ResetTimeBounds ==
    [][/\ now' >= now
       /\ \A p \in Providers :
             /\ Checked(p) => /\ now <= rateLimits'[p].resetTime
                              /\ rateLimits'[p].resetTime <= now + WINDOW_MS
             /\ rateLimits'[p].resetTime >= rateLimits[p].resetTime]_vars

\* C37 witness: a check made one millisecond after the first window had ended
\* opened a new one, and a second call was admitted into it.
C37_Witness ==
    \E p \in Providers :
        /\ now = WINDOW_MS + 1
        /\ rateLimits[p].resetTime = now + WINDOW_MS
        /\ rateLimits[p].requests = 2
        /\ sent[p] = 2


\* The provider all participants of run r use, if they exist, share a supported
\* provider whose credential is set, and none was missing when its turn came.
SharedProvider(r) ==
    {p \in Providers :
        /\ keys[p]
        /\ runs[r].agentIds # <<>>
        /\ \A x \in 1..Len(runs[r].agentIds) :
              /\ runs[r].agentIds[x] \in DOMAIN agents
              /\ agents[runs[r].agentIds[x]].provider = p
        /\ \A x \in 1..Len(runs[r].conversation) :
              runs[r].conversation[x].error # "Agent not found"}

\* The other runs that have called provider p: a turn of theirs on an agent of p
\* is recorded or awaits its reply.
OtherCallers(r, p) ==
    {q \in DOMAIN runs \ {r} :
        \/ \E x \in 1..Len(runs[q].conversation) :
              LET a == runs[q].conversation[x].agentId
              IN /\ a \in DOMAIN agents
                 /\ agents[a].provider = p
                 /\ runs[q].conversation[x].error # "Agent not found"
        \/ \E s \in DOMAIN inflight :
              /\ inflight[s].st # "free"
              /\ inflight[s].run = q
              /\ inflight[s].provider = p}

\* C38: a run whose participants all use one provider p, the only caller of p in
\* the first window of p, which had all its limit slots free at the start, sends
\* min(limit, n*k) requests to p: its first min(limit, n*k) turns; every later
\* turn is recorded with the rate-limit error, and the run completes with n*k
\* records.
C38_RunStopsReachingProviderAtLimit ==
    \A r \in DOMAIN runs : \A p \in SharedProvider(r) :
        LET turns == Participants(r) * runs[r].iterations
            m == Min(rateLimits[p].limit, turns)
        IN (ticks = 0 /\ OtherCallers(r, p) = {}) =>
           /\ sent[p] <= m
           /\ \A x \in 1..Len(runs[r].conversation) :
                 (x > m) <=> (runs[r].conversation[x].error = RateLimitError)
           /\ runs[r].pc = "done"
              => /\ sent[p] = m
                 /\ rateLimits[p].requests = m
                 /\ Len(runs[r].conversation) = turns
                 /\ runs[r].completed # NotSet

\* C38 witness: a completed run of 2 participants and 2 iterations on a provider
\* of limit 1: one request was sent, the turn succeeded, and the three turns
\* after it are recorded with the rate-limit error.
C38_Witness ==
    \E r \in DOMAIN runs : \E p \in SharedProvider(r) :
        /\ runs[r].pc = "done"
        /\ rateLimits[p].limit = 1
        /\ Len(runs[r].conversation) = 4
        /\ runs[r].agentIds[1] # runs[r].agentIds[2]
        /\ Succeeded(runs[r].conversation[1])
        /\ sent[p] = 1
        /\ \A x \in 2..4 : runs[r].conversation[x].error = RateLimitError


\* The turns of agent a that get their record in this step: the runs whose
\* conversation grows by a record of a.
TurnsRecorded(a) ==
    {r \in DOMAIN runs :
        /\ r \in DOMAIN runs'
        /\ Len(runs'[r].conversation) = Len(runs[r].conversation) + 1
        /\ Last(runs'[r].conversation).agentId = a}

\* C39: a run changes the memory of agents through its turns only. The step
\* that records a successful turn appends the turn's prompt, as a user message,
\* and the reply to the memory of the turn's agent and applies the cap; the step
\* that records a failed turn, and every other step of a run, leaves every
\* memory as it is; so does every step for the agents that are not taking the
\* turn, those not listed in agentIds among them.
C39_RunChangesMemoryByTurnsOnly ==
    [][\A a \in DOMAIN agents :
          IF \E r \in TurnsRecorded(a) : Succeeded(Last(runs'[r].conversation))
          THEN \E r \in TurnsRecorded(a) :
                  agents'[a].memory =
                      LastN(Memory(a) \o
                                <<UserMessage(Last(runs[r].prompts)),
                                  AssistantMessage(Last(runs'[r].conversation).response)>>,
                            MEMORY_CAP)
          ELSE agents'[a].memory = Memory(a)]_vars

====
